---- MODULE Spec2Model ----
(***************************************************************************)
(* Access-control core of the smithy backend: backup-code verification,   *)
(* the login / partial-auth handshake, the signed-token lifecycle and the *)
(* cache-backed revocation store.                                         *)
(*                                                                         *)
(* The module holds several specifications over one set of variables.     *)
(* Each specification drives one group of variables and leaves the others *)
(* at their idle value:                                                    *)
(*   SpecBackup  MFAService._verify_backup_code, step by step, for        *)
(*               concurrent callers of one principal                      *)
(*   SpecLogin   the login endpoint and complete_mfa_authentication, one   *)
(*               request at a time, with the cache's TTLs on a clock      *)
(*   SpecToken   TokenManager.create_access_token and decode_token over    *)
(*               time, with tampered tokens                                *)
(*   SpecRevoke  logout_user, refresh_access_token and get_current_user on *)
(*               the blacklist entries of the cache                        *)
(*   SpecRotate  refresh rotation and get_current_user while the cache     *)
(*               client may be disconnected                                *)
(*   SpecRbac    RBACService.has_permission over the role assignments a    *)
(*               database can hold, with time passing their expiry         *)
(*   SpecMfa     MFAService setup, enable, verify, disable and backup-code *)
(*               regeneration of one user, one request at a time, and      *)
(*               _verify_totp_code over the steps around the current one   *)
(*   SpecMfaRace the same MFAService requests of one user running          *)
(*               concurrently                                              *)
(*   SpecLogout  logout_user with the session's or forged refresh tokens   *)
(*               while the cache client may be disconnected                *)
(*   SpecCompleteRace  concurrent complete_mfa_authentication calls on one *)
(*               partial-auth token, and the user being suspended          *)
(*   SpecRefreshRace  concurrent refresh_access_token calls on one refresh *)
(*               token                                                     *)
(*   SpecOrg     OrganizationService.update_member_role, remove_member and *)
(*               leave_organization on the members of one organization     *)
(*   SpecTasks   TaskService.create_task_dependency on the tasks of one    *)
(*               project                                                   *)
(*                                                                         *)
(* Time is counted in ticks, TicksPerSecond to the second, so that        *)
(* instants between two whole seconds exist.                               *)
(***************************************************************************)
EXTENDS Integers, Sequences, FiniteSets, TLC

VARIABLES
    bcCode,        \* backup-code record -> plaintext whose hash it stores (code_hash)
    bcUsed,        \* backup-code record -> is_used, as committed in the store
    batchExpired,  \* expires_at of the batch lies in the past
    call,          \* caller -> state of its _verify_backup_code call
    now,           \* the clock, in ticks
    ticks,         \* number of clock advances so far
    redisUp,       \* RedisClient._redis is set (connected)
    userActive,    \* User.status is ACTIVE (else SUSPENDED)
    mfaEnabled,    \* User.mfa_enabled (in the login flow User.mfa_secret is UserSecret)
    mfaUserCache,  \* cache entry mfa_user:{user_id}
    partialAuth,   \* partial-auth token -> cache entry partial_auth:{token}
    nextPartial,   \* number of partial-auth tokens generated so far
    partialMeta,   \* history: token -> when a login issued it after its password check
    consumed,      \* history: tokens a completion has succeeded with
    resp,          \* the last request and its response
    jwts,          \* the tokens issued so far, each with when and how it was asked for
    cache,         \* cache key (blacklisted_token:{jti}, session:{jti}) -> entry
    promised,      \* history: jti -> latest end of a TTL a successful blacklist_token was given
    rotated,       \* history: the tokens a refresh has returned new tokens for
    userRoles,     \* the rows of user_roles (role assignments)
    roleActive,    \* role -> roles.is_active
    mfaSecret,     \* User.mfa_secret where the MFA lifecycle is followed
    mfaSetup,      \* cache entry mfa_setup:{user_id}
    backupRows,    \* the rows of mfa_backup_codes, one group for each INSERT
    req,           \* slot -> the MFA request running in it
    nextGen,       \* number of secrets and batches generated so far
    nextIns,       \* number of INSERTs of backup codes so far
    mfaDone,       \* history: the MFA operations that have committed
    members,       \* user -> its row of organization_members in the organization
    deps           \* the rows of task_dependencies: <<blocking task, blocked task>>

backupVars == <<bcCode, bcUsed, batchExpired, call>>
clockVars == <<now, ticks>>
loginVars == <<redisUp, userActive, mfaEnabled, mfaUserCache, partialAuth,
               nextPartial, partialMeta, consumed, resp>>
tokenVars == <<jwts, cache, promised, rotated>>
rbacVars == <<userRoles, roleActive>>
mfaVars == <<mfaSecret, mfaSetup, backupRows, req, nextGen, nextIns, mfaDone>>
workVars == <<members, deps>>
vars == <<bcCode, bcUsed, batchExpired, call, now, ticks, redisUp, userActive,
          mfaEnabled, mfaUserCache, partialAuth, nextPartial, partialMeta,
          consumed, resp, jwts, cache, promised, rotated,
          userRoles, roleActive, mfaSecret, mfaSetup, backupRows, req,
          nextGen, nextIns, mfaDone, members, deps>>

(***************************************************************************)
(* Bounds                                                                  *)
(***************************************************************************)
NCallers == 2
NRecords == 2
NCodes == 2
MaxTicks == 2
MaxPartial == 1
MaxTokens == 1
MaxSessions == 3
MaxLogins == 1
MaxRevokeSessions == 2
MaxAssignments == 2
MaxGens == 2
MaxInserts == 2
NUsers == 3
NTasks == 3
TicksPerSecond == 2

Callers == 1..NCallers
Records == 1..NRecords
PlainCodes == 1..NCodes
NoRecord == 0

Min(a, b) == IF a < b THEN a ELSE b

(***************************************************************************)
(* Strings that matter to the core: a string is its content and length.   *)
(***************************************************************************)
Str(content, len) == [content |-> content, len |-> len]

\* _generate_backup_codes: 8 random characters c, formatted c[:4] + "-" + c[4:].
FormatBackupCode(c) == Str(<<"bk", c, "-">>, 4 + 1 + 4)

\* The same 8 characters without the hyphen.
UnformattedBackupCode(c) == Str(<<"bk", c>>, 4 + 4)

IssuedCodes == {FormatBackupCode(c) : c \in PlainCodes}

(***************************************************************************)
(* Credential hasher for backup codes (passlib bcrypt context).           *)
(***************************************************************************)
BackupHash(code) == <<"bcrypt", code.content>>

BackupVerify(code, digest) == digest = BackupHash(code)

CodeHash(r) == BackupHash(FormatBackupCode(bcCode[r]))

\* The records that store the hash of the issued code `code`.
HoldersOf(code) == {r \in Records : FormatBackupCode(bcCode[r]) = code}

(***************************************************************************)
(* _verify_backup_code                                                     *)
(***************************************************************************)
SelectLimit == 15

\* The WHERE clause without its is_used = false condition.
UnusedUnexpiredAnyUse == {r \in Records : ~batchExpired}

\* Rows the SELECT's WHERE clause keeps.
UnusedUnexpired == {r \in Records : ~bcUsed[r] /\ ~batchExpired}

\* The result sets the SELECT ... LIMIT may return.
SelectUnused ==
    {S \in SUBSET UnusedUnexpired :
        Cardinality(S) = Min(SelectLimit, Cardinality(UnusedUnexpired))}

IdleCall ==
    [pc |-> "idle", code |-> Str(<<>>, 0), pending |-> {}, marked |-> NoRecord,
     result |-> FALSE, usedAtStart |-> {}, markedSet |-> {}]

\* Position of the call after the commit of a match.
AfterCommitPcContinue(c) == IF c.pending = {} THEN "done" ELSE "comparing"

AfterCommitPc(c) == "done"

\* The call starts: the SELECT runs and one comparison task per row is created.
BeginVerify(p, code) ==
    /\ call[p].pc = "idle"
    /\ \E S \in SelectUnused :
         call' = [call EXCEPT ![p] =
                    [pc |-> IF S = {} THEN "done" ELSE "comparing",
                     code |-> code,
                     pending |-> S,
                     marked |-> NoRecord,
                     result |-> FALSE,
                     usedAtStart |-> {r \in Records : bcUsed[r]},
                     markedSet |-> {}]]
    /\ UNCHANGED <<bcCode, bcUsed, batchExpired, clockVars, loginVars, tokenVars, rbacVars, workVars, mfaVars>>

\* as_completed yields the next finished comparison, in any order.
TaskCompleted(p, r) ==
    /\ call[p].pc = "comparing"
    /\ r \in call[p].pending
    /\ LET c == call[p]
           rest == c.pending \ {r}
       IN  IF BackupVerify(c.code, CodeHash(r))
           THEN \* mark_as_used on the session's object, then await commit
                call' = [call EXCEPT ![p] =
                           [c EXCEPT !.pc = "commit", !.pending = rest,
                                     !.marked = r]]
           ELSE call' = [call EXCEPT ![p] =
                           [c EXCEPT !.pending = rest,
                                     !.pc = IF rest = {} THEN "done"
                                            ELSE "comparing"]]
    /\ UNCHANGED <<bcCode, bcUsed, batchExpired, clockVars, loginVars, tokenVars, rbacVars, workVars, mfaVars>>

\* The commit flushes UPDATE ... SET is_used = true WHERE id = :id.
CommitUsed(p) ==
    /\ call[p].pc = "commit"
    /\ LET c == call[p]
           pc2 == AfterCommitPc(c)
       IN  /\ bcUsed' = [bcUsed EXCEPT ![c.marked] = TRUE]
           /\ call' = [call EXCEPT ![p] =
                         [c EXCEPT !.pc = pc2,
                                   !.result = TRUE,
                                   !.markedSet = c.markedSet \cup {c.marked},
                                   !.pending = IF pc2 = "done" THEN {}
                                               ELSE c.pending]]
    /\ UNCHANGED <<bcCode, batchExpired, clockVars, loginVars, tokenVars, rbacVars, workVars, mfaVars>>

\* Time passes beyond the batch's expires_at.
ExpireBatch ==
    /\ ~batchExpired
    /\ batchExpired' = TRUE
    /\ UNCHANGED <<bcCode, bcUsed, call, clockVars, loginVars, tokenVars, rbacVars, workVars, mfaVars>>

\* get_backup_codes_info: COUNT(id), SUM(CAST(is_used AS INTEGER)) and their difference.
RECURSIVE SumUsed(_)
SumUsed(S) ==
    IF S = {} THEN 0
    ELSE LET r == CHOOSE x \in S : TRUE
         IN  (IF bcUsed[r] THEN 1 ELSE 0) + SumUsed(S \ {r})

GetBackupCodesInfo ==
    LET total == Cardinality(Records)
        used == SumUsed(Records)
    IN  [total_codes |-> total, used_codes |-> used,
         remaining_codes |-> total - used]

(***************************************************************************)
(* The cache client (RedisClient) and the clock                            *)
(***************************************************************************)
NoEntry == [live |-> FALSE]

Entry(value, expireAt) == [live |-> TRUE, value |-> value, expireAt |-> expireAt]

\* An entry that outlives its TTL.
IsLiveForever(e, t) == e.live

IsLive(e, t) == e.live /\ t < e.expireAt

\* RedisClient.get: None when not connected or when the key is absent.
RedisGet(e) == IF redisUp /\ IsLive(e, now) THEN e ELSE NoEntry

\* RedisClient.set with ex = expire seconds: the entry after the call. Nothing is
\* written when the client is not connected or the server refuses the expiry.
RedisSet(e, value, expire) ==
    IF redisUp /\ expire > 0
    THEN Entry(value, now + expire * TicksPerSecond)
    ELSE e

\* RedisClient.delete: the entry after the call.
RedisDelete(e) == IF redisUp THEN NoEntry ELSE e

\* Entries whose TTL has elapsed at time t are gone.
Expire(e, t) == IF IsLive(e, t) THEN e ELSE NoEntry

RedisConnect ==
    /\ ~redisUp
    /\ redisUp' = TRUE
    /\ UNCHANGED <<backupVars, clockVars, userActive, mfaEnabled, mfaUserCache,
                   partialAuth, nextPartial, partialMeta, consumed, resp, tokenVars, rbacVars, workVars, mfaVars>>

RedisDisconnect ==
    /\ redisUp
    /\ redisUp' = FALSE
    /\ UNCHANGED <<backupVars, clockVars, userActive, mfaEnabled, mfaUserCache,
                   partialAuth, nextPartial, partialMeta, consumed, resp, tokenVars, rbacVars, workVars, mfaVars>>

(***************************************************************************)
(* TOTP (pyotp.TOTP(secret).verify(code, valid_window=1))                  *)
(***************************************************************************)
TotpInterval == 30
TotpDigits == 6
\* A window of two steps to either side.
ValidWindowWide == 1 + 1

ValidWindow == 1

UserSecret == "S1"

TimeStep(t) == (t \div TicksPerSecond) \div TotpInterval

TotpAt(secret, step) == Str(<<"totp", secret, step>>, TotpDigits)

\* A verification that accepts every code.
VerifyTotpCodeAny(secret, code) == TRUE

VerifyTotpCode(secret, code) ==
    \E i \in (0 - ValidWindow)..ValidWindow : code = TotpAt(secret, TimeStep(now) + i)

(***************************************************************************)
(* MFAService.verify_mfa_code, run without interruption                    *)
(***************************************************************************)
MfaUserCacheExpire == 300

BackupMatches(S, code) == {r \in S : BackupVerify(code, CodeHash(r))}

\* _verify_backup_code run to its end: the outcomes it may have, each the record
\* it marked (NoRecord: it returned false).
VerifyBackupCodeOutcomes(code) ==
    LET marks == UNION {BackupMatches(S, code) : S \in SelectUnused}
    IN  IF marks = {} THEN {NoRecord} ELSE marks

\* The outcomes of verify_mfa_code(user, code, check_backup): what it returned
\* ("true", "false", or "not_enabled" for the not-found error), the mfa_user
\* cache entry it leaves and the record it marked used.
VerifyMfaCodeOutcomes(code, check_backup) ==
    LET cached == RedisGet(mfaUserCache)
        fromCache == cached.live
        cacheAfter == IF fromCache THEN mfaUserCache
                      ELSE RedisSet(mfaUserCache, UserSecret, MfaUserCacheExpire)
        secret == IF fromCache THEN cached.value ELSE UserSecret
        Out(ret, m) == [ret |-> ret, cache |-> cacheAfter, marked |-> m]
    IN  IF ~fromCache /\ ~mfaEnabled
        THEN {[ret |-> "not_enabled", cache |-> mfaUserCache, marked |-> NoRecord]}
        ELSE IF VerifyTotpCode(secret, code)
        THEN {Out("true", NoRecord)}
        ELSE IF check_backup
        THEN {Out(IF m = NoRecord THEN "false" ELSE "true", m) :
                 m \in VerifyBackupCodeOutcomes(code)}
        ELSE {Out("false", NoRecord)}

MarkUsed(m) == IF m = NoRecord THEN bcUsed ELSE [bcUsed EXCEPT ![m] = TRUE]

(***************************************************************************)
(* POST /auth/login: LoginRequest, then AuthService.authenticate_user      *)
(***************************************************************************)
NoCode == Str(<<"none">>, 0)
MfaCodeMinLength == 6
MfaCodeMaxLength == 8
PartialAuthExpire == 60 * 5

\* LoginRequest.mfa_code: Optional, min_length 6, max_length 8.
LoginRequestValid(code) ==
    code = NoCode \/ (MfaCodeMinLength <= code.len /\ code.len <= MfaCodeMaxLength)

\* AuthenticationException.__init__(self, message): what constructing it yields
\* when the caller also passes details=...
AuthenticationExceptionWith(hasDetails) ==
    IF hasDetails THEN "TypeError" ELSE "AuthenticationException"

\* The details key authenticate_user sets and the key the endpoint reads.
DetailsKeyRaised == "required_mfa"
DetailsKeyRead == "requires_mfa"

\* The endpoint's answer to what authenticate_user raised for a missing code.
MfaRequiredOutcome ==
    IF AuthenticationExceptionWith(TRUE) # "AuthenticationException"
    THEN "type_error"
    ELSE IF DetailsKeyRaised = DetailsKeyRead THEN "mfa_required"
    ELSE "authentication_error"

\* Whether authenticate_user issues tokens to an MFA-enabled user without
\* asking verify_mfa_code.
LoginSkipsMfaAlways == TRUE

LoginSkipsMfa == FALSE

Tokens == 1..MaxPartial
NoToken == 0
Never == 0 - 1

\* What a response remembers of the code it was given: its kind and length.
KindOf(code) == <<code.content[1], code.len>>

\* History kept with a response: what held when the request arrived.
PreFacts(code, tok) ==
    {f \in {"active", "cache_up", "live", "reuse", "elapsed", "unused_backup"} :
        \/ f = "active" /\ userActive
        \/ f = "cache_up" /\ redisUp
        \/ f = "live" /\ tok \in Tokens /\ RedisGet(partialAuth[tok]).live
        \/ f = "reuse" /\ tok \in consumed
        \/ f = "elapsed" /\ tok \in Tokens /\ partialMeta[tok] # Never
             /\ now >= partialMeta[tok] + PartialAuthExpire * TicksPerSecond
        \/ f = "unused_backup" /\ HoldersOf(code) \cap UnusedUnexpired # {}}

Resp(op, pwOK, code, tok, outcome, mfaOK, newTok, marked) ==
    [op |-> op, pwOK |-> pwOK, kind |-> KindOf(code), tok |-> tok,
     outcome |-> outcome, mfaOK |-> mfaOK, newTok |-> newTok, marked |-> marked,
     pre |-> PreFacts(code, tok)]

Login(pwOK, code) ==
    /\ UNCHANGED <<bcCode, batchExpired, call, clockVars, redisUp, userActive,
                   mfaEnabled, consumed, tokenVars, rbacVars, workVars, mfaVars>>
    /\ IF ~LoginRequestValid(code)
       THEN /\ resp' = Resp("login", pwOK, code, NoToken, "validation_error", FALSE, NoToken, NoRecord)
            /\ UNCHANGED <<bcUsed, mfaUserCache, partialAuth, nextPartial, partialMeta>>
       ELSE IF ~pwOK
       THEN /\ resp' = Resp("login", pwOK, code, NoToken, "invalid_credentials", FALSE, NoToken, NoRecord)
            /\ UNCHANGED <<bcUsed, mfaUserCache, partialAuth, nextPartial, partialMeta>>
       ELSE IF ~userActive
       THEN /\ resp' = Resp("login", pwOK, code, NoToken, "forbidden", FALSE, NoToken, NoRecord)
            /\ UNCHANGED <<bcUsed, mfaUserCache, partialAuth, nextPartial, partialMeta>>
       ELSE IF mfaEnabled /\ code = NoCode
       THEN \* a fresh partial-auth token is stored, then the exception is built
            /\ nextPartial < MaxPartial
            /\ LET t == nextPartial + 1
                   e == RedisSet(partialAuth[t], "user", PartialAuthExpire)
               IN  /\ nextPartial' = t
                   /\ partialAuth' = [partialAuth EXCEPT ![t] = e]
                   /\ partialMeta' = [partialMeta EXCEPT ![t] = now]
                   /\ resp' = Resp("login", pwOK, code, NoToken, MfaRequiredOutcome,
                                   FALSE, t, NoRecord)
            /\ UNCHANGED <<bcUsed, mfaUserCache>>
       ELSE IF mfaEnabled /\ ~LoginSkipsMfa
       THEN \E o \in VerifyMfaCodeOutcomes(code, TRUE) :
              /\ mfaUserCache' = o.cache
              /\ bcUsed' = MarkUsed(o.marked)
              /\ resp' = Resp("login", pwOK, code, NoToken,
                              CASE o.ret = "true" -> "tokens"
                                [] o.ret = "false" -> "invalid_mfa_code"
                                [] OTHER -> "mfa_not_enabled",
                              o.ret = "true", NoToken, o.marked)
              /\ UNCHANGED <<partialAuth, nextPartial, partialMeta>>
       ELSE /\ resp' = Resp("login", pwOK, code, NoToken, "tokens", FALSE, NoToken, NoRecord)
            /\ UNCHANGED <<bcUsed, mfaUserCache, partialAuth, nextPartial, partialMeta>>

(***************************************************************************)
(* AuthService.complete_mfa_authentication                                 *)
(***************************************************************************)
\* The check_backup argument complete_mfa_authentication passes.
CompleteCheckBackupTrue == TRUE

CompleteCheckBackup == FALSE

\* The partial_auth entry after a successful completion.
KeepPartial(e) == e

CleanUpPartial(e) == RedisDelete(e)

Complete(tok, code) ==
    /\ UNCHANGED <<bcCode, batchExpired, call, clockVars, redisUp, userActive,
                   mfaEnabled, nextPartial, partialMeta, tokenVars, rbacVars, workVars, mfaVars>>
    /\ IF ~RedisGet(partialAuth[tok]).live
       THEN /\ resp' = Resp("complete", FALSE, code, tok, "session_expired", FALSE, NoToken, NoRecord)
            /\ UNCHANGED <<bcUsed, mfaUserCache, partialAuth, consumed>>
       ELSE IF ~mfaEnabled
       THEN /\ resp' = Resp("complete", FALSE, code, tok, "invalid_session", FALSE, NoToken, NoRecord)
            /\ UNCHANGED <<bcUsed, mfaUserCache, partialAuth, consumed>>
       ELSE \E o \in VerifyMfaCodeOutcomes(code, CompleteCheckBackup) :
              /\ mfaUserCache' = o.cache
              /\ bcUsed' = MarkUsed(o.marked)
              /\ IF o.ret = "true"
                 THEN /\ partialAuth' = [partialAuth EXCEPT ![tok] = CleanUpPartial(@)]
                      /\ consumed' = consumed \cup {tok}
                      /\ resp' = Resp("complete", FALSE, code, tok, "tokens", TRUE, NoToken, o.marked)
                 ELSE /\ resp' = Resp("complete", FALSE, code, tok,
                                      IF o.ret = "false" THEN "invalid_mfa_code"
                                      ELSE "mfa_not_enabled", FALSE, NoToken, NoRecord)
                      /\ UNCHANGED <<partialAuth, consumed>>

(***************************************************************************)
(* Environment of the login flow                                           *)
(***************************************************************************)
LoginTickSteps == {1, TicksPerSecond * PartialAuthExpire - 1}

\* Time passes; cache entries whose TTL has elapsed vanish.
TickLogin ==
    /\ ticks < MaxTicks
    /\ \E d \in LoginTickSteps :
         /\ now' = now + d
         /\ mfaUserCache' = Expire(mfaUserCache, now + d)
         /\ partialAuth' = [t \in Tokens |-> Expire(partialAuth[t], now + d)]
    /\ ticks' = ticks + 1
    /\ UNCHANGED <<backupVars, redisUp, userActive, mfaEnabled, nextPartial,
                   partialMeta, consumed, resp, tokenVars, rbacVars, workVars, mfaVars>>

\* The MFA codes a client may send.
ClientCodes ==
    {NoCode, Str(<<"junk">>, TotpDigits), TotpAt(UserSecret, TimeStep(now))}
      \cup IssuedCodes
      \cup {UnformattedBackupCode(1)}

(***************************************************************************)
(* MFA lifecycle (MFAService): setup_mfa, verify_and_enable_mfa,           *)
(* verify_mfa_code, disable_mfa and generate_backup_codes, each split at   *)
(* the await between what it reads and what it commits. A secret and a     *)
(* batch of backup codes are known by the number of their generation.      *)
(***************************************************************************)
BackupCodeCount == 10
MfaSetupExpire == 600
NoSecret == 0

\* The n-th code of the batch generated as number g.
BackupCodeOf(g, n) == FormatBackupCode(<<g, n>>)

\* _store_backup_codes: the rows one INSERT adds, kept as one group.
BackupGroup(ins, g) == [ins |-> ins, batch |-> g, used |-> {}]

\* _verify_backup_code run to its end on the committed rows: what it returns
\* and the rows it leaves. With more unused rows than the SELECT's LIMIT the
\* matching row may be left out.
VerifyBackupCode(rows, code) ==
    LET hits == {<<r, n>> \in rows \X (1..BackupCodeCount) :
                    /\ n \notin r.used
                    /\ BackupVerify(code, BackupHash(BackupCodeOf(r.batch, n)))}
        unused == BackupCodeCount * Cardinality(rows)
                    - Cardinality(UNION {{<<r.ins, n>> : n \in r.used} : r \in rows})
    IN  {[ret |-> "true",
          rows |-> (rows \ {h[1]}) \cup {[h[1] EXCEPT !.used = @ \cup {h[2]}]}] : h \in hits}
          \cup {[ret |-> "false", rows |-> rows] :
                   x \in {1} \cap {IF hits = {} \/ unused > SelectLimit THEN 1 ELSE 0}}

\* verify_mfa_code once it holds the secret to compare with: the TOTP test, then
\* the backup codes.
VerifyWithSecret(secret, code, rows) ==
    IF secret # NoSecret /\ VerifyTotpCode(secret, code)
    THEN {[ret |-> "true", rows |-> rows]}
    ELSE VerifyBackupCode(rows, code)

IdleReq == [op |-> "none", pc |-> "idle"]

\* Whether code is a TOTP code of secret that the window around now covers.
TotpNow(secret, code) ==
    \E i \in {0 - 1, 0, 1} : code = TotpAt(secret, TimeStep(now) + i)

\* What holds when a request arrives; its response carries it.
MfaPre(pwOK, code) ==
    LET staged == mfaSetup.live /\ now < mfaSetup.expireAt
    IN  {f \in {"password", "enabled", "cache_up", "staged", "totp_staged", "totp_user",
                "backup_unused", "replay"} :
            \/ f = "password" /\ pwOK
            \/ f = "enabled" /\ mfaEnabled
            \/ f = "cache_up" /\ redisUp
            \/ f = "staged" /\ staged
            \/ f = "totp_staged" /\ staged /\ TotpNow(mfaSetup.value, code)
            \/ f = "totp_user" /\ mfaSecret # NoSecret /\ TotpNow(mfaSecret, code)
            \/ f = "backup_unused"
                 /\ \E r \in backupRows, n \in (1..BackupCodeCount) :
                       n \notin r.used /\ code = BackupCodeOf(r.batch, n)
            \/ f = "replay" /\ staged /\ mfaEnabled /\ mfaSetup.value = mfaSecret}

\* A request may start in the lowest free slot while requests are left.
MayStart(p) ==
    /\ req[p].pc = "idle"
    /\ \A q \in Callers : q < p => req[q].pc # "idle"

\* The variables no MFA request touches.
mfaFrame == <<backupVars, clockVars, redisUp, userActive, partialAuth, nextPartial,
              partialMeta, consumed, tokenVars, rbacVars, workVars>>

\* The response of a request that ends, and the slot it frees. The response says
\* which generation the request worked with, whether its last step left the
\* durable MFA records as they were, and what they are after it.
Respond(p, op, outcome, pre, gen) ==
    /\ req' = [req EXCEPT ![p] = IdleReq]
    /\ resp' = [op |-> op, outcome |-> outcome, pre |-> pre, gen |-> gen,
                same |-> <<mfaEnabled', mfaSecret', backupRows'>>
                           = <<mfaEnabled, mfaSecret, backupRows>>,
                enabled |-> mfaEnabled', secret |-> mfaSecret', rows |-> backupRows',
                staged |-> mfaSetup'.live]

\* A request goes on to its next step.
Proceed(p, op, pc, pre, local) ==
    /\ req' = [req EXCEPT ![p] = [op |-> op, pc |-> pc, pre |-> pre, local |-> local]]
    /\ UNCHANGED resp

\* _get_user_and_verify_password, then setup_mfa's test of mfa_enabled.
SetupMfa(p, pwOK) ==
    /\ MayStart(p)
    /\ UNCHANGED <<mfaFrame, mfaEnabled, mfaSecret, backupRows, mfaSetup, mfaUserCache,
                   nextGen, nextIns, mfaDone>>
    /\ IF ~pwOK THEN Respond(p, "setup", "invalid_password", MfaPre(pwOK, NoCode), NoSecret)
       ELSE IF mfaEnabled THEN Respond(p, "setup", "already_enabled", MfaPre(pwOK, NoCode), NoSecret)
       ELSE Proceed(p, "setup", "stage", MfaPre(pwOK, NoCode), NoSecret)

\* setup_mfa: a fresh secret and a fresh batch, staged under mfa_setup:{user_id}.
SetupMfaStage(p) ==
    /\ req[p].op = "setup" /\ req[p].pc = "stage"
    /\ nextGen < MaxGens
    /\ nextGen' = nextGen + 1
    /\ mfaSetup' = RedisSet(mfaSetup, nextGen + 1, MfaSetupExpire)
    /\ UNCHANGED <<mfaFrame, mfaEnabled, mfaSecret, backupRows, mfaUserCache,
                   nextIns, mfaDone>>
    /\ Respond(p, "setup", "staged", req[p].pre, nextGen + 1)

\* verify_and_enable_mfa up to its TOTP test.
VerifyAndEnableMfa(p, code) ==
    /\ MayStart(p)
    /\ UNCHANGED <<mfaFrame, mfaEnabled, mfaSecret, backupRows, mfaSetup, mfaUserCache,
                   nextGen, nextIns, mfaDone>>
    /\ LET temp_data == RedisGet(mfaSetup)
       IN  IF ~temp_data.live
           THEN Respond(p, "enable", "setup_expired", MfaPre(TRUE, code), NoSecret)
           ELSE IF ~VerifyTotpCode(temp_data.value, code)
           THEN Respond(p, "enable", "invalid_code", MfaPre(TRUE, code), temp_data.value)
           ELSE Proceed(p, "enable", "commit", MfaPre(TRUE, code), temp_data.value)

\* verify_and_enable_mfa from its UPDATE to the end: the commit of the user row
\* and the backup codes, then the delete of the staged entry; or, the storage
\* failing, the rollback.
VerifyAndEnableCommit(p, storage_ok) ==
    /\ req[p].op = "enable" /\ req[p].pc = "commit"
    /\ nextIns < MaxInserts
    /\ IF storage_ok
       THEN /\ mfaEnabled' = TRUE
            /\ mfaSecret' = req[p].local
            /\ backupRows' = backupRows \cup {BackupGroup(nextIns + 1, req[p].local)}
            /\ nextIns' = nextIns + 1
            /\ mfaSetup' = RedisDelete(mfaSetup)
            /\ mfaDone' = mfaDone \cup {"enable"}
            /\ Respond(p, "enable", "enabled", req[p].pre, req[p].local)
       ELSE /\ UNCHANGED <<mfaEnabled, mfaSecret, backupRows, nextIns, mfaSetup, mfaDone>>
            /\ Respond(p, "enable", "failed", req[p].pre, req[p].local)
    /\ UNCHANGED <<mfaFrame, mfaUserCache, nextGen>>

\* verify_mfa_code up to the await that follows its reads: the cached secret
\* decides at once; without one the user row is read.
VerifyMfaCode(p, code) ==
    /\ MayStart(p)
    /\ UNCHANGED <<mfaFrame, mfaEnabled, mfaSecret, mfaSetup, mfaUserCache,
                   nextGen, nextIns, mfaDone>>
    /\ LET cached_user == RedisGet(mfaUserCache)
       IN  IF cached_user.live
           THEN \E o \in VerifyWithSecret(cached_user.value, code, backupRows) :
                   /\ backupRows' = o.rows
                   /\ Respond(p, "verify", o.ret, MfaPre(TRUE, code), cached_user.value)
           ELSE /\ UNCHANGED backupRows
                /\ IF ~mfaEnabled \/ mfaSecret = NoSecret
                   THEN Respond(p, "verify", "not_enabled", MfaPre(TRUE, code), NoSecret)
                   ELSE Proceed(p, "verify", "fill", MfaPre(TRUE, code),
                                [secret |-> mfaSecret, code |-> code])

\* verify_mfa_code after the user row was read: the secret is cached for five
\* minutes and the code compared with it.
VerifyMfaCodeFill(p) ==
    /\ req[p].op = "verify" /\ req[p].pc = "fill"
    /\ mfaUserCache' = RedisSet(mfaUserCache, req[p].local.secret, MfaUserCacheExpire)
    /\ UNCHANGED <<mfaFrame, mfaEnabled, mfaSecret, mfaSetup, nextGen,
                   nextIns, mfaDone>>
    /\ \E o \in VerifyWithSecret(req[p].local.secret, req[p].local.code, backupRows) :
          /\ backupRows' = o.rows
          /\ Respond(p, "verify", o.ret, req[p].pre, req[p].local.secret)

\* The tests of disable_mfa without the one of mfa_enabled.
DisableRefusalPasswordOnly(pwOK) == IF ~pwOK THEN "invalid_password" ELSE "no"

\* disable_mfa's tests before it asks verify_mfa_code: the password, then
\* mfa_enabled.
DisableRefusal(pwOK) ==
    IF ~pwOK THEN "invalid_password"
    ELSE IF ~mfaEnabled THEN "not_enabled"
    ELSE "no"

\* disable_mfa up to the answer of its verify_mfa_code call.
DisableMfa(p, pwOK, code) ==
    /\ MayStart(p)
    /\ UNCHANGED <<mfaFrame, mfaEnabled, mfaSecret, mfaSetup, nextGen, nextIns, mfaDone>>
    /\ IF DisableRefusal(pwOK) # "no"
       THEN /\ UNCHANGED <<backupRows, mfaUserCache>>
            /\ Respond(p, "disable", DisableRefusal(pwOK), MfaPre(pwOK, code), NoSecret)
       ELSE LET cached_user == RedisGet(mfaUserCache)
                secret == IF cached_user.live THEN cached_user.value ELSE mfaSecret
            IN  /\ mfaUserCache' = IF cached_user.live THEN mfaUserCache
                                   ELSE RedisSet(mfaUserCache, mfaSecret, MfaUserCacheExpire)
                /\ \E o \in VerifyWithSecret(secret, code, backupRows) :
                      /\ backupRows' = o.rows
                      /\ IF o.ret = "true"
                         THEN Proceed(p, "disable", "commit", MfaPre(pwOK, code), secret)
                         ELSE Respond(p, "disable", "invalid_code", MfaPre(pwOK, code), secret)

\* disable_mfa from its UPDATE to the end: the commit, then the delete of the
\* cached secret.
DisableMfaCommit(p) ==
    /\ req[p].op = "disable" /\ req[p].pc = "commit"
    /\ mfaEnabled' = FALSE
    /\ mfaSecret' = NoSecret
    /\ backupRows' = {}
    /\ mfaUserCache' = RedisDelete(mfaUserCache)
    /\ mfaDone' = mfaDone \cup {"disable"}
    /\ UNCHANGED <<mfaFrame, mfaSetup, nextGen, nextIns>>
    /\ Respond(p, "disable", "disabled", req[p].pre, req[p].local)

\* The regeneration without its DELETE.
KeepOldCodes(rows) == {}

\* The rows the DELETE of generate_backup_codes removes: the user's, as committed
\* when the statement runs.
DeleteOldCodes(rows) == {r.ins : r \in rows}

\* generate_backup_codes up to its DELETE.
GenerateBackupCodes(p, pwOK) ==
    /\ MayStart(p)
    /\ UNCHANGED <<mfaFrame, mfaEnabled, mfaSecret, backupRows, mfaSetup, mfaUserCache,
                   nextIns, mfaDone>>
    /\ IF ~pwOK \/ ~mfaEnabled \/ mfaSecret = NoSecret
       THEN /\ UNCHANGED nextGen
            /\ Respond(p, "generate", IF ~pwOK THEN "invalid_password" ELSE "not_enabled",
                       MfaPre(pwOK, NoCode), NoSecret)
       ELSE /\ nextGen < MaxGens
            /\ nextGen' = nextGen + 1
            /\ Proceed(p, "generate", "commit", MfaPre(pwOK, NoCode),
                       [gen |-> nextGen + 1, deleted |-> DeleteOldCodes(backupRows)])

\* generate_backup_codes: the new batch is stored and the transaction commits.
GenerateBackupCodesCommit(p) ==
    /\ req[p].op = "generate" /\ req[p].pc = "commit"
    /\ nextIns < MaxInserts
    /\ backupRows' = {r \in backupRows : r.ins \notin req[p].local.deleted}
                       \cup {BackupGroup(nextIns + 1, req[p].local.gen)}
    /\ nextIns' = nextIns + 1
    /\ mfaDone' = mfaDone \cup {"generate"}
    /\ UNCHANGED <<mfaFrame, mfaEnabled, mfaSecret, mfaSetup, mfaUserCache,
                   nextGen>>
    /\ Respond(p, "generate", "codes", req[p].pre, req[p].local.gen)

\* _verify_totp_code(secret, code) for the code pyotp generates for step T.
VerifyTotpCodeOfStep(secret, T) ==
    /\ \A p \in Callers : req[p].pc = "idle"
    /\ resp' = [op |-> "verify_totp", secret |-> secret, T |-> T, step |-> TimeStep(now),
                outcome |-> VerifyTotpCode(secret, TotpAt(secret, T))]
    /\ UNCHANGED <<mfaFrame, mfaEnabled, mfaUserCache, mfaVars>>

\* The clock moves by the lifetime of the cached secret, half that of a staged setup.
MfaTickSteps == {MfaUserCacheExpire * TicksPerSecond}

\* Time passes; cache entries whose TTL has elapsed vanish.
TickMfa ==
    /\ ticks < MaxTicks
    /\ \E d \in MfaTickSteps :
         /\ now' = now + d
         /\ mfaUserCache' = Expire(mfaUserCache, now + d)
         /\ mfaSetup' = Expire(mfaSetup, now + d)
    /\ ticks' = ticks + 1
    /\ UNCHANGED <<backupVars, redisUp, userActive, mfaEnabled, partialAuth, nextPartial,
                   partialMeta, consumed, resp, tokenVars, rbacVars, workVars, mfaSecret,
                   backupRows, req, nextGen, nextIns, mfaDone>>

\* The codes a client may send: a wrong one, the current TOTP code of the secret
\* of the user, of the staged setup and of the cached entry, and the first backup
\* code of each stored batch.
MfaClientCodes ==
    {Str(<<"junk">>, TotpDigits)}
      \cup {TotpAt(g, TimeStep(now)) :
               g \in ({mfaSecret} \cup {e.value : e \in {x \in {mfaSetup, mfaUserCache} : x.live}})
                        \ {NoSecret}}
      \cup {BackupCodeOf(r.batch, 1) : r \in backupRows}

IdleMfa ==
    /\ mfaSecret = NoSecret
    /\ mfaSetup = NoEntry
    /\ backupRows = {}
    /\ req = [p \in Callers |-> IdleReq]
    /\ nextGen = 0
    /\ nextIns = 0
    /\ mfaDone = {}

(***************************************************************************)
(* Role-based access control (RBACService)                                 *)
(***************************************************************************)
\* ResourceType, and None for an argument that was not given.
NoType == "None"
NoId == "None"
ResourceTypes == {"SYSTEM", "ORGANIZATION", "PROJECT"}

\* The default roles and the permissions they carry.
Roles == {"system.super_admin", "org.owner"}

RolePermissions(role) ==
    IF role = "system.super_admin" THEN {"system.admin"}
    ELSE {"organization.read", "project.create", "project.read"}

PermissionNames == {"system.admin", "project.create"}

\* user_roles.expires_at is nullable.
NoExpiry == Never

UserRoleRow(user_id, role, resource_type, resource_id, is_active, expires_at) ==
    [user_id |-> user_id, role |-> role, resource_type |-> resource_type,
     resource_id |-> resource_id, is_active |-> is_active, expires_at |-> expires_at]

\* UserRole.is_expired and UserRole.is_valid at time t.
IsExpired(a, t) == a.expires_at # NoExpiry /\ t > a.expires_at

IsValid(a, t) == a.is_active /\ ~IsExpired(a, t)

\* base_cond with the is_active test left out.
BaseCondAnyActivity(a, user_id) == a.user_id = user_id

\* base_cond: the user's assignments with is_active set.
BaseCond(a, user_id) == a.user_id = user_id /\ a.is_active

\* ctx_cond: one test per argument that was given.
CtxCond(a, resource_id, resource_type) ==
    /\ resource_type # NoType => a.resource_type = resource_type
    /\ resource_id # NoId => a.resource_id = resource_id

SystemCond(a) == a.resource_type = "SYSTEM"

\* The scope test with every assignment let through.
ScopeCondAny(a, resource_id, resource_type) == TRUE

\* The scope part of final_cond.
ScopeCond(a, resource_id, resource_type) ==
    IF resource_type = "SYSTEM" THEN SystemCond(a)
    ELSE IF resource_type # NoType \/ resource_id # NoId
    THEN CtxCond(a, resource_id, resource_type) \/ SystemCond(a)
    ELSE TRUE

\* get_user_permissions: the permission names the query returns.
GetUserPermissions(user_id, resource_id, resource_type) ==
    UNION {RolePermissions(a.role) :
             a \in {b \in userRoles : /\ BaseCond(b, user_id)
                                      /\ ScopeCond(b, resource_id, resource_type)
                                      /\ roleActive[b.role]}}

\* has_permission without the system.admin test.
NoAdminOverride(user_permissions) == FALSE

AdminOverride(user_permissions) == "system.admin" \in user_permissions

\* An error of the query reaching the caller.
StorageErrorRaised == "raised"

\* has_permission's except branch.
OnStorageError == "false"

\* has_permission; storage_ok says whether the query ran without raising.
HasPermission(user_id, permission, resource_id, resource_type, storage_ok) ==
    IF ~storage_ok THEN OnStorageError
    ELSE LET user_permissions == GetUserPermissions(user_id, resource_id, resource_type)
         IN  IF permission \in user_permissions THEN "true"
             ELSE IF AdminOverride(user_permissions) THEN "true"
             ELSE "false"

CheckPermission(user_id, permission, resource_id, resource_type, storage_ok) ==
    /\ resp' = [op |-> "has_permission", user |-> user_id, perm |-> permission,
                rid |-> resource_id, rtype |-> resource_type, storage_ok |-> storage_ok,
                outcome |-> HasPermission(user_id, permission, resource_id,
                                          resource_type, storage_ok),
                at |-> now]
    /\ UNCHANGED <<backupVars, clockVars, redisUp, userActive, mfaEnabled,
                   mfaUserCache, partialAuth, nextPartial, partialMeta, consumed,
                   tokenVars, rbacVars, workVars, mfaVars>>

\* The table without its system_role_no_resource check.
SystemRoleNoResourceOff(a) == TRUE

\* CheckConstraint system_role_no_resource of user_roles.
SystemRoleNoResource(a) ==
    \/ a.resource_type = "SYSTEM" /\ a.resource_id = NoId
    \/ a.resource_type # "SYSTEM" /\ a.resource_id # NoId

\* unique_user_role_resource
UniqueAssignments(S) ==
    \A a, b \in S :
        (a.user_id = b.user_id /\ a.role = b.role /\ a.resource_type = b.resource_type
            /\ a.resource_id = b.resource_id) => a = b

\* INSERT of one user_roles row, granted now: the table's constraints
\* (system_role_no_resource, valid_expiration, unique_user_role_resource) accept
\* or reject it.
InsertUserRole(a) ==
    /\ Cardinality(userRoles) < MaxAssignments
    /\ a \notin userRoles
    /\ LET ok == /\ SystemRoleNoResource(a)
                 /\ (a.expires_at = NoExpiry \/ a.expires_at > now)
                 /\ UniqueAssignments(userRoles \cup {a})
       IN  /\ userRoles' = IF ok THEN userRoles \cup {a} ELSE userRoles
           /\ resp' = [op |-> "insert_user_role", row |-> a, before |-> userRoles,
                       outcome |-> IF ok THEN "stored" ELSE "rejected"]
    /\ UNCHANGED <<backupVars, clockVars, redisUp, userActive, mfaEnabled,
                   mfaUserCache, partialAuth, nextPartial, partialMeta, consumed,
                   tokenVars, roleActive, mfaVars, workVars>>

\* Time passes beyond the expiry of an assignment.
TickRbac ==
    /\ \E a \in userRoles :
         /\ a.expires_at # NoExpiry
         /\ now <= a.expires_at
         /\ now' = a.expires_at + 1
    /\ UNCHANGED <<backupVars, ticks, loginVars, tokenVars, rbacVars, workVars, mfaVars>>

(***************************************************************************)
(* Organization membership (OrganizationService) and task dependencies     *)
(* (TaskService)                                                           *)
(***************************************************************************)
workFrame == <<backupVars, clockVars, redisUp, userActive, mfaEnabled, mfaUserCache,
               partialAuth, nextPartial, partialMeta, consumed, tokenVars, rbacVars,
               mfaVars>>

\* The users that may hold a membership of the organization; user 1 created it.
OrgUsers == 1..NUsers

Creator == 1

\* OrganizationRole, as far as the owner guard tells roles apart.
OrgRoles == {"owner", "admin", "member"}

\* No row of organization_members for the user.
NoMember == [role |-> "none", status |-> "none"]

Member(role, status) == [role |-> role, status |-> status]

\* Organization.members: every membership row of the organization, whatever
\* its status.
OrgMembers == {u \in OrgUsers : members[u] # NoMember}

\* len([m for m in org.members if m.role == OrganizationRole.OWNER])
OwnerCount == Cardinality({u \in OrgMembers : members[u].role = "owner"})

\* OrganizationMember.is_active
IsActiveMember(u) == members[u].status = "active"

\* can_user_manager_members: an active member with role OWNER or ADMIN.
CanUserManageMembers(u) ==
    /\ u \in OrgMembers
    /\ IsActiveMember(u)
    /\ members[u].role \in {"owner", "admin"}

\* The last-owner guard of update_member_role, remove_member and
\* leave_organization.
LastOwner(u) == members[u].role = "owner" /\ OwnerCount <= 1

OrgResp(op, by, user, role, outcome) ==
    [op |-> op, by |-> by, user |-> user, role |-> role, outcome |-> outcome]

\* update_member_role(org, user, role) asked by updater.
UpdateMemberRole(updater, user, role) ==
    LET outcome == IF ~CanUserManageMembers(updater) THEN "forbidden"
                   ELSE IF user \notin OrgMembers THEN "not_found"
                   ELSE IF role # "owner" /\ LastOwner(user) THEN "last_owner"
                   ELSE "updated"
    IN  /\ members' = IF outcome = "updated"
                      THEN [members EXCEPT ![user].role = role]
                      ELSE members
        /\ resp' = OrgResp("update_member_role", updater, user, role, outcome)
        /\ UNCHANGED <<workFrame, deps>>

\* remove_member(org, user) asked by remover: the row is deleted.
RemoveMember(remover, user) ==
    LET outcome == IF ~CanUserManageMembers(remover) THEN "forbidden"
                   ELSE IF user \notin OrgMembers THEN "not_found"
                   ELSE IF LastOwner(user) THEN "last_owner"
                   ELSE "removed"
    IN  /\ members' = IF outcome = "removed"
                      THEN [members EXCEPT ![user] = NoMember]
                      ELSE members
        /\ resp' = OrgResp("remove_member", remover, user, "none", outcome)
        /\ UNCHANGED <<workFrame, deps>>

\* leave_organization(org, user): the status becomes LEFT, the role stays.
LeaveOrganization(user) ==
    LET outcome == IF user \notin OrgMembers THEN "not_found"
                   ELSE IF LastOwner(user) THEN "last_owner"
                   ELSE "left"
    IN  /\ members' = IF outcome = "left"
                      THEN [members EXCEPT ![user].status = "left"]
                      ELSE members
        /\ resp' = OrgResp("leave_organization", user, user, "none", outcome)
        /\ UNCHANGED <<workFrame, deps>>

Tasks == 1..NTasks

\* _would_create_circular_dependency: is there a dependency in which the blocked
\* task blocks the blocking one.
WouldCreateCircularDependency(blocking, blocked) == <<blocked, blocking>> \in deps

\* create_task_dependency(blocking, blocked) by a user who may edit the blocking
\* task.
CreateTaskDependency(blocking, blocked) ==
    LET outcome == IF blocking = blocked THEN "self_dependency"
                   ELSE IF <<blocking, blocked>> \in deps THEN "conflict"
                   ELSE IF WouldCreateCircularDependency(blocking, blocked)
                        THEN "circular"
                   ELSE "created"
    IN  /\ deps' = IF outcome = "created" THEN deps \cup {<<blocking, blocked>>} ELSE deps
        /\ resp' = [op |-> "create_task_dependency", blocking |-> blocking,
                    blocked |-> blocked, outcome |-> outcome]
        /\ UNCHANGED <<workFrame, members>>

\* The tasks reachable from task t along one or more dependencies.
RECURSIVE ReachableIn(_, _, _)
ReachableIn(edges, frontier, n) ==
    IF n = 0 THEN frontier
    ELSE ReachableIn(edges,
                     frontier \cup {e[2] : e \in {x \in edges : x[1] \in frontier}},
                     n - 1)

BlockedThrough(t) ==
    ReachableIn(deps, {e[2] : e \in {x \in deps : x[1] = t}}, NTasks)

IdleOrg == members = [u \in OrgUsers |-> NoMember]

IdleTasks == deps = {}

IdleWork == IdleOrg /\ IdleTasks

IdleRbac ==
    /\ userRoles = {}
    /\ roleActive = [r \in Roles |-> TRUE]

IdleClock == now = 0 /\ ticks = 0

IdleBackup ==
    /\ bcCode = [r \in Records |-> ((r - 1) % NCodes) + 1]
    /\ bcUsed = [r \in Records |-> FALSE]
    /\ batchExpired = FALSE
    /\ call = [p \in Callers |-> IdleCall]

IdleResp ==
    [op |-> "none", pwOK |-> FALSE, kind |-> KindOf(NoCode), tok |-> NoToken,
     outcome |-> "none", mfaOK |-> FALSE, newTok |-> NoToken, marked |-> NoRecord,
     pre |-> {}]

IdleLogin ==
    /\ redisUp = FALSE
    /\ userActive = TRUE
    /\ mfaEnabled = FALSE
    /\ mfaUserCache = NoEntry
    /\ partialAuth = [t \in Tokens |-> NoEntry]
    /\ nextPartial = 0
    /\ partialMeta = [t \in Tokens |-> Never]
    /\ consumed = {}
    /\ resp = IdleResp

Jtis == 1..(2 * MaxSessions)

CacheKeys == {<<prefix, j>> : prefix \in {"blacklisted_token", "session"}, j \in Jtis}

IdleTokens ==
    /\ jwts = <<>>
    /\ cache = [k \in CacheKeys |-> NoEntry]
    /\ promised = [j \in Jtis |-> Never]
    /\ rotated = {}
    /\ IdleRbac

InitLogin ==
    /\ IdleBackup
    /\ IdleClock
    /\ IdleWork
    /\ IdleMfa
    /\ IdleTokens
    /\ redisUp = FALSE
    /\ userActive \in BOOLEAN
    /\ mfaEnabled \in BOOLEAN
    /\ mfaUserCache = NoEntry
    /\ partialAuth = [t \in Tokens |-> NoEntry]
    /\ nextPartial = 0
    /\ partialMeta = [t \in Tokens |-> Never]
    /\ consumed = {}
    /\ resp = IdleResp

NextLogin ==
    \/ RedisConnect
    \/ RedisDisconnect
    \/ TickLogin
    \/ \E code \in ClientCodes : Login(TRUE, code)
    \/ \E code \in {NoCode, FormatBackupCode(1)} : Login(FALSE, code)
    \/ \E tok \in Tokens, code \in ClientCodes : Complete(tok, code)

SpecLogin == InitLogin /\ [][NextLogin]_vars

(***************************************************************************)
(* TokenManager (python-jose: jwt.encode, jwt.decode)                      *)
(***************************************************************************)
AccessTokenExpireMinutes == 30
RefreshTokenExpireDays == 7

Seconds(t) == t \div TicksPerSecond

AccessLifetimeTicks == AccessTokenExpireMinutes * 60 * TicksPerSecond
RefreshLifetimeTicks == RefreshTokenExpireDays * 86400 * TicksPerSecond

NoClaims == <<>>

\* jwt.encode writes a datetime claim as whole seconds since the epoch.
NumericDate(t) == Seconds(t)

\* create_access_token at time t; expires_delta (ticks) of 0 stands for None.
\* additional_claims are written over the payload.
CreateAccessToken(subject, user_id, role, expires_delta, additional_claims, jti, t) ==
    LET expire == IF expires_delta # 0 THEN t + expires_delta
                  ELSE t + AccessLifetimeTicks
        payload == [sub |-> subject, user_id |-> user_id, role |-> role,
                    exp |-> NumericDate(expire), iat |-> NumericDate(t),
                    type |-> "access", jti |-> jti]
    IN  [payload |-> additional_claims @@ payload, sig |-> "ok"]

\* A create_refresh_token that marks its token as an access token.
CreateRefreshTokenTypedAccess(subject, user_id, expires_delta, jti, t) ==
    LET expire == IF expires_delta # 0 THEN t + expires_delta
                  ELSE t + RefreshLifetimeTicks
    IN  [payload |-> [sub |-> subject, user_id |-> user_id,
                      exp |-> NumericDate(expire), iat |-> NumericDate(t),
                      type |-> "access", jti |-> jti],
         sig |-> "ok"]

\* create_refresh_token at time t.
CreateRefreshToken(subject, user_id, expires_delta, jti, t) ==
    LET expire == IF expires_delta # 0 THEN t + expires_delta
                  ELSE t + RefreshLifetimeTicks
    IN  [payload |-> [sub |-> subject, user_id |-> user_id,
                      exp |-> NumericDate(expire), iat |-> NumericDate(t),
                      type |-> "refresh", jti |-> jti],
         sig |-> "ok"]

\* decode_token with the expiry check left out.
DecodeTokenNoExpiry(token, t) ==
    IF token.sig # "ok" THEN [outcome |-> "token_invalid", claims |-> NoClaims]
    ELSE [outcome |-> "ok", claims |-> token.payload]

\* decode_token at time t: the signature, then exp against the current whole second.
DecodeToken(token, t) ==
    IF token.sig # "ok" THEN [outcome |-> "token_invalid", claims |-> NoClaims]
    ELSE IF token.payload.exp < Seconds(t)
    THEN [outcome |-> "token_expired", claims |-> NoClaims]
    ELSE [outcome |-> "ok", claims |-> token.payload]

\* get_token_jti: the jti claim, read without verifying anything.
GetTokenJti(token) == token.payload.jti

\* A token somebody changed without the server's key: the claims say admin and a
\* late expiry, and the signature no longer verifies.
Tampered(token) ==
    [payload |-> [token.payload EXCEPT !.role = "admin", !.exp = @ + 86400],
     sig |-> "bad"]

TokenUsers == {"u1", "u2"}
TokenRoles == {"user", "admin"}
EmailOf(u) == <<u, "@example.com">>

\* The claims _create_user_session adds to an access token.
SessionClaims == [mfa_enabled |-> TRUE, is_verified |-> TRUE]

TokenTtls == {0, 1, TicksPerSecond}

Issued(token, at, ttl, user_id, role) ==
    [tok |-> token, at |-> at, ttl |-> ttl, user_id |-> user_id, role |-> role]

IssueAccessToken(u, role, ttl, extra) ==
    /\ Len(jwts) < MaxTokens
    /\ LET jti == Len(jwts) + 1
           token == CreateAccessToken(EmailOf(u), u, role, ttl, extra, jti, now)
       IN  jwts' = Append(jwts, Issued(token, now, ttl, u, role))
    /\ UNCHANGED <<backupVars, clockVars, loginVars, cache, promised, rotated, rbacVars, workVars, mfaVars>>

\* decode_token is applied to an issued token or to a tampered copy of it.
Decode(i, tampered) ==
    /\ i \in 1..Len(jwts)
    /\ LET token == IF tampered THEN Tampered(jwts[i].tok) ELSE jwts[i].tok
           d == DecodeToken(token, now)
       IN  resp' = [op |-> "decode", idx |-> i, tampered |-> tampered,
                    outcome |-> d.outcome, claims |-> d.claims, when |-> now]
    /\ UNCHANGED <<backupVars, clockVars, redisUp, userActive, mfaEnabled,
                   mfaUserCache, partialAuth, nextPartial, partialMeta, consumed,
                   tokenVars, rbacVars, workVars, mfaVars>>

TokenTickSteps == {1, TicksPerSecond}

TickToken ==
    /\ ticks < MaxTicks
    /\ \E d \in TokenTickSteps : now' = now + d
    /\ ticks' = ticks + 1
    /\ UNCHANGED <<backupVars, loginVars, tokenVars, rbacVars, workVars, mfaVars>>

InitToken ==
    /\ IdleBackup
    /\ IdleClock
    /\ IdleWork
    /\ IdleMfa
    /\ IdleLogin
    /\ IdleTokens

NextToken ==
    \/ \E u \in TokenUsers, role \in TokenRoles, ttl \in TokenTtls,
          extra \in {NoClaims, SessionClaims} : IssueAccessToken(u, role, ttl, extra)
    \/ \E i \in 1..MaxTokens, tampered \in BOOLEAN : Decode(i, tampered)
    \/ TickToken

SpecToken == InitToken /\ [][NextToken]_vars

(***************************************************************************)
(* Sessions, refresh rotation and logout (AuthService)                     *)
(***************************************************************************)
Max(a, b) == IF a > b THEN a ELSE b

BlacklistKey(jti) == <<"blacklisted_token", jti>>
SessionKey(jti) == <<"session", jti>>

\* RedisClient.set answers True when the value was written.
RedisSetOk(expire) == redisUp /\ expire > 0

\* RedisClient.exists: False when not connected.
RedisExists(e) == redisUp /\ IsLive(e, now)

\* RedisClient.blacklist_token(jti, expire) on a cache c: the cache after the call.
BlacklistToken(c, jti, expire) ==
    [c EXCEPT ![BlacklistKey(jti)] = RedisSet(@, "revoked", expire)]

\* RedisClient.is_token_blacklisted(jti) on a cache c.
IsTokenBlacklistedIn(c, jti) == RedisExists(c[BlacklistKey(jti)])

IsTokenBlacklisted(jti) == IsTokenBlacklistedIn(cache, jti)

\* The end of a TTL a successful blacklist_token call was given is remembered.
Promise(pr, jti, expire) ==
    IF RedisSetOk(expire)
    THEN [pr EXCEPT ![jti] = Max(@, now + expire * TicksPerSecond)]
    ELSE pr

\* int(expire_time - current_time)
Remaining(exp) == (exp * TicksPerSecond - now) \div TicksPerSecond

\* expire_time > current_time
NotYetExpired(exp) == exp * TicksPerSecond > now

SessionUser == "u1"
SessionRole == "user"
SessionExpire == RefreshTokenExpireDays * 86400
LogoutRefreshExpire == 86400 * 7

\* _create_user_session: both tokens and the cache after set_session.
SessionAccess(j) ==
    CreateAccessToken(EmailOf(SessionUser), SessionUser, SessionRole,
                      AccessLifetimeTicks, SessionClaims, j, now)

SessionRefresh(j) ==
    CreateRefreshToken(EmailOf(SessionUser), SessionUser, RefreshLifetimeTicks, j, now)

SessionTokens ==
    <<Issued(SessionAccess(Len(jwts) + 1), now, AccessLifetimeTicks, SessionUser, SessionRole),
      Issued(SessionRefresh(Len(jwts) + 2), now, RefreshLifetimeTicks, SessionUser, SessionRole)>>

SetSession(c) ==
    [c EXCEPT ![SessionKey(Len(jwts) + 1)] = RedisSet(@, "session_data", SessionExpire)]

RoomForSession == Len(jwts) + 2 <= 2 * MaxSessions

\* What held of the presented token when the request arrived. The response of a
\* refresh that returned tokens and of a logout also remembers, as ttls, the
\* expiries it called blacklist_token with.
RevokePre(idx) ==
    IF idx \in 1..Len(jwts)
    THEN {"revoked" : x \in {1} \cap {IF promised[GetTokenJti(jwts[idx].tok)] # Never THEN 1 ELSE 0}}
           \cup {"unexpired" : x \in {1} \cap {IF NotYetExpired(jwts[idx].tok.payload.exp) THEN 1 ELSE 0}}
           \cup {"rotated" : x \in {idx} \cap rotated}
           \cup {"cache_up" : x \in {TRUE} \cap {redisUp}}
    ELSE {}

RevokeResp(op, idx, outcome) ==
    [op |-> op, idx |-> idx, outcome |-> outcome, pre |-> RevokePre(idx)]

\* A login or registration that succeeded: _create_user_session.
OpenSession ==
    /\ RoomForSession
    /\ Len(jwts) - 2 * Cardinality(rotated) < 2 * MaxLogins
    /\ userActive
    /\ jwts' = jwts \o SessionTokens
    /\ cache' = SetSession(cache)
    /\ resp' = RevokeResp("session", Len(jwts) + 1, "tokens")
    /\ UNCHANGED <<backupVars, clockVars, redisUp, userActive, mfaEnabled,
                   mfaUserCache, partialAuth, nextPartial, partialMeta, consumed,
                   promised, rotated, rbacVars, workVars, mfaVars>>

\* refresh_access_token with the i-th issued token as refresh_token.
RefreshAccessToken(i) ==
    /\ i \in 1..Len(jwts)
    /\ LET token == jwts[i].tok
           d == DecodeToken(token, now)
           jti == d.claims.jti
           exp == d.claims.exp
           refused == IF d.outcome # "ok" THEN "invalid_refresh_token"
                      ELSE IF d.claims.type # "refresh" THEN "invalid_token_type"
                      ELSE IF IsTokenBlacklisted(jti) THEN "blacklisted"
                      ELSE IF ~userActive THEN "user_not_found"
                      ELSE "no"
       IN  IF refused # "no"
           THEN /\ resp' = RevokeResp("refresh", i, refused)
                /\ UNCHANGED <<jwts, cache, promised, rotated>>
           ELSE /\ RoomForSession
                /\ jwts' = jwts \o SessionTokens
                /\ rotated' = rotated \cup {i}
                /\ resp' = RevokeResp("refresh", i, "tokens")
                              @@ [ttls |-> IF NotYetExpired(exp) THEN {Remaining(exp)} ELSE {}]
                /\ IF NotYetExpired(exp)
                   THEN /\ cache' = BlacklistToken(SetSession(cache), jti, Remaining(exp))
                        /\ promised' = Promise(promised, jti, Remaining(exp))
                   ELSE /\ cache' = SetSession(cache)
                        /\ UNCHANGED promised
    /\ UNCHANGED <<backupVars, clockVars, redisUp, userActive, mfaEnabled,
                   mfaUserCache, partialAuth, nextPartial, partialMeta, consumed, rbacVars, workVars, mfaVars>>

NoRefreshToken == 0

\* A refresh-token string made without the server's key: it carries the jti j and
\* its signature does not verify.
Forged(j) ==
    [payload |-> [sub |-> EmailOf(SessionUser), user_id |-> SessionUser,
                  exp |-> NumericDate(now + RefreshLifetimeTicks), iat |-> NumericDate(now),
                  type |-> "refresh", jti |-> j],
     sig |-> "bad"]

\* logout_user with the i-th issued token as access_token and refresh as
\* refresh_token (the empty sequence: none given). The response remembers the
\* expiries blacklist_token was called with, the jtis whose write succeeded and
\* failed, the jtis of the supplied tokens that pass decode_token, those of the
\* supplied tokens not yet expired, and the jtis blacklisted when it returns.
LogoutUserWith(i, refresh) ==
    /\ i \in 1..Len(jwts)
    /\ LET d == DecodeToken(jwts[i].tok, now)
           doAccess == d.outcome = "ok" /\ NotYetExpired(d.claims.exp)
           ttl == Remaining(d.claims.exp)
           c1 == IF doAccess THEN BlacklistToken(cache, d.claims.jti, ttl) ELSE cache
           p1 == IF doAccess THEN Promise(promised, d.claims.jti, ttl) ELSE promised
           given == refresh # <<>>
           rjti == GetTokenJti(refresh[1])
           asked == (IF doAccess THEN {<<d.claims.jti, ttl>>} ELSE {})
                      \cup (IF given THEN {<<rjti, LogoutRefreshExpire>>} ELSE {})
           supplied == <<jwts[i].tok>> \o refresh
       IN  /\ cache' = IF given THEN BlacklistToken(c1, rjti, LogoutRefreshExpire) ELSE c1
           /\ promised' = IF given THEN Promise(p1, rjti, LogoutRefreshExpire) ELSE p1
           /\ resp' = RevokeResp("logout", i,
                                 IF d.outcome = "ok" THEN "logged_out" ELSE "partial_logout")
                         @@ [ttls |-> {a[2] : a \in asked},
                             written |-> {a[1] : a \in {x \in asked : RedisSetOk(x[2])}},
                             failed |-> {a[1] : a \in {x \in asked : ~RedisSetOk(x[2])}},
                             verified |-> {GetTokenJti(supplied[n]) :
                                             n \in {k \in DOMAIN supplied :
                                                      DecodeToken(supplied[k], now).outcome = "ok"}},
                             due |-> {GetTokenJti(supplied[n]) :
                                        n \in {k \in DOMAIN supplied :
                                                 NotYetExpired(supplied[k].payload.exp)}},
                             listed |-> {j \in Jtis : IsLive(cache'[BlacklistKey(j)], now)}]
    /\ UNCHANGED <<backupVars, clockVars, redisUp, userActive, mfaEnabled,
                   mfaUserCache, partialAuth, nextPartial, partialMeta, consumed,
                   jwts, rotated, rbacVars, workVars, mfaVars>>

\* logout_user with the i-th issued token as access_token and the r-th as
\* refresh_token (NoRefreshToken: none given).
LogoutUser(i, r) ==
    /\ r \in 0..Len(jwts)
    /\ LogoutUserWith(i, IF r = NoRefreshToken THEN <<>> ELSE <<jwts[r].tok>>)

\* logout_user with a forged refresh_token that names the jti j.
LogoutUserForged(i, j) == LogoutUserWith(i, <<Forged(j)>>)

\* get_current_user with the i-th issued token as the bearer credentials.
GetCurrentUser(i) ==
    /\ i \in 1..Len(jwts)
    /\ LET d == DecodeToken(jwts[i].tok, now)
           outcome == IF d.outcome # "ok" THEN "token_expired_or_invalid"
                      ELSE IF d.claims.type # "access" THEN "invalid_token_type"
                      ELSE IF IsTokenBlacklisted(d.claims.jti) THEN "revoked"
                      ELSE IF ~userActive THEN "forbidden"
                      ELSE "user"
       IN  resp' = RevokeResp("current_user", i, outcome)
    /\ UNCHANGED <<backupVars, clockVars, redisUp, userActive, mfaEnabled,
                   mfaUserCache, partialAuth, nextPartial, partialMeta, consumed,
                   tokenVars, rbacVars, workVars, mfaVars>>

RevokeTickSteps == {1, AccessLifetimeTicks - 2}

\* Time passes; cache entries whose TTL has elapsed vanish.
TickRevoke ==
    /\ ticks < MaxTicks
    /\ \E d \in RevokeTickSteps :
         /\ now' = now + d
         /\ cache' = [k \in CacheKeys |-> Expire(cache[k], now + d)]
    /\ ticks' = ticks + 1
    /\ UNCHANGED <<backupVars, loginVars, jwts, promised, rotated, rbacVars, workVars, mfaVars>>

\* The refresh token issued in the same session as the i-th token.
RefreshOfSession(i) == IF i % 2 = 1 THEN i + 1 ELSE i

\* The application is up: the cache client is connected (lifespan startup).
InitRevoke ==
    /\ IdleBackup
    /\ IdleClock
    /\ IdleWork
    /\ IdleMfa
    /\ IdleTokens
    /\ redisUp = TRUE
    /\ userActive = TRUE
    /\ mfaEnabled = FALSE
    /\ mfaUserCache = NoEntry
    /\ partialAuth = [t \in Tokens |-> NoEntry]
    /\ nextPartial = 0
    /\ partialMeta = [t \in Tokens |-> Never]
    /\ consumed = {}
    /\ resp = IdleResp

\* refresh_access_token while no more than MaxRevokeSessions sessions were opened.
RefreshInRevoke(i) == RefreshAccessToken(i) /\ Len(jwts') <= 2 * MaxRevokeSessions

\* Logout and rotation, the cache connected throughout.
NextRevoke ==
    \/ OpenSession
    \/ \E i \in Jtis : RefreshInRevoke(i)
    \/ \E i \in Jtis : \E r \in {NoRefreshToken, RefreshOfSession(i)} : LogoutUser(i, r)
    \/ \E i \in Jtis : GetCurrentUser(i)
    \/ TickRevoke

SpecRevoke == InitRevoke /\ [][NextRevoke]_vars

\* Rotation and token checks while the cache client may lose its connection.
NextRotate ==
    \/ OpenSession
    \/ \E i \in Jtis : RefreshAccessToken(i)
    \/ \E i \in Jtis : GetCurrentUser(i)
    \/ RedisConnect
    \/ RedisDisconnect
    \/ TickRevoke

SpecRotate == InitRevoke /\ [][NextRotate]_vars

\* Logout, with refresh tokens of the session or forged ones, while the cache
\* client may lose its connection.
NextLogout ==
    \/ OpenSession
    \/ \E i \in Jtis : \E r \in {NoRefreshToken, RefreshOfSession(i)} : LogoutUser(i, r)
    \/ \E i \in Jtis, j \in Jtis : LogoutUserForged(i, j)
    \/ \E i \in Jtis : GetCurrentUser(i)
    \/ RedisConnect
    \/ RedisDisconnect

SpecLogout == InitRevoke /\ [][NextLogout]_vars

(***************************************************************************)
(* complete_mfa_authentication and refresh_access_token, each split at its *)
(* awaits, for concurrent requests                                         *)
(***************************************************************************)
authFrame == <<backupVars, clockVars, redisUp, nextPartial, partialMeta, rbacVars, workVars,
               mfaSecret, mfaSetup, backupRows, nextGen, nextIns, mfaDone>>

\* A request that ends: its slot is free again.
Done(p) == req' = [req EXCEPT ![p] = IdleReq]

\* complete_mfa_authentication: the partial_auth entry and the user are read.
CompleteRead(p, tok, code) ==
    /\ MayStart(p)
    /\ IF ~RedisGet(partialAuth[tok]).live \/ ~mfaEnabled
       THEN /\ Done(p)
            /\ resp' = [op |-> "complete_mfa", tok |-> tok,
                        outcome |-> IF ~RedisGet(partialAuth[tok]).live
                                    THEN "session_expired" ELSE "invalid_session",
                        earlier |-> tok \in consumed, active |-> userActive]
       ELSE Proceed(p, "complete_mfa", "verify", PreFacts(code, tok),
                    [tok |-> tok, code |-> code])
    /\ UNCHANGED <<authFrame, userActive, mfaEnabled, mfaUserCache, partialAuth,
                   consumed, tokenVars>>

\* complete_mfa_authentication: verify_mfa_code with check_backup False.
CompleteVerify(p) ==
    /\ req[p].op = "complete_mfa" /\ req[p].pc = "verify"
    /\ \E o \in VerifyMfaCodeOutcomes(req[p].local.code, CompleteCheckBackup) :
          /\ mfaUserCache' = o.cache
          /\ IF o.ret = "true"
             THEN Proceed(p, "complete_mfa", "clean_up", req[p].pre, req[p].local)
             ELSE /\ Done(p)
                  /\ resp' = [op |-> "complete_mfa", tok |-> req[p].local.tok,
                              outcome |-> IF o.ret = "false" THEN "invalid_mfa_code"
                                          ELSE "mfa_not_enabled",
                              earlier |-> req[p].local.tok \in consumed,
                              active |-> userActive]
    /\ UNCHANGED <<authFrame, userActive, mfaEnabled, partialAuth, consumed, tokenVars>>

\* complete_mfa_authentication: the partial_auth entry is deleted.
CompleteCleanUp(p) ==
    /\ req[p].op = "complete_mfa" /\ req[p].pc = "clean_up"
    /\ partialAuth' = [partialAuth EXCEPT ![req[p].local.tok] = CleanUpPartial(@)]
    /\ Proceed(p, "complete_mfa", "session", req[p].pre, req[p].local)
    /\ UNCHANGED <<authFrame, userActive, mfaEnabled, mfaUserCache, consumed, tokenVars>>

\* complete_mfa_authentication: _update_login_info and _create_user_session; the
\* tokens are returned. The response says whether a completion had returned
\* tokens for this partial-auth token before, and whether the user is active.
CompleteSession(p) ==
    /\ req[p].op = "complete_mfa" /\ req[p].pc = "session"
    /\ consumed' = consumed \cup {req[p].local.tok}
    /\ Done(p)
    /\ resp' = [op |-> "complete_mfa", tok |-> req[p].local.tok, outcome |-> "tokens",
                earlier |-> req[p].local.tok \in consumed, active |-> userActive]
    /\ UNCHANGED <<authFrame, userActive, mfaEnabled, mfaUserCache, partialAuth, tokenVars>>

\* UserService.update_user_status: an administrator suspends the user.
SuspendUser ==
    /\ userActive
    /\ userActive' = FALSE
    /\ UNCHANGED <<authFrame, mfaEnabled, mfaUserCache, partialAuth, consumed, resp,
                   req, tokenVars>>

\* refresh_access_token with the i-th issued token: decode_token, the type, the
\* blacklist and the user are checked.
RefreshCheck(p, i) ==
    /\ MayStart(p)
    /\ i \in 1..Len(jwts)
    /\ LET d == DecodeToken(jwts[i].tok, now)
           refused == IF d.outcome # "ok" THEN "invalid_refresh_token"
                      ELSE IF d.claims.type # "refresh" THEN "invalid_token_type"
                      ELSE IF IsTokenBlacklisted(d.claims.jti) THEN "blacklisted"
                      ELSE IF ~userActive THEN "user_not_found"
                      ELSE "no"
       IN  IF refused # "no"
           THEN /\ Done(p)
                /\ resp' = RevokeResp("refresh", i, refused)
                             @@ [ttls |-> {}, earlier |-> i \in rotated]
           ELSE Proceed(p, "refresh", "session", RevokePre(i),
                        [idx |-> i, jti |-> d.claims.jti, exp |-> d.claims.exp])
    /\ UNCHANGED <<authFrame, userActive, mfaEnabled, mfaUserCache, partialAuth,
                   consumed, tokenVars>>

\* refresh_access_token: _create_user_session.
RefreshSession(p) ==
    /\ req[p].op = "refresh" /\ req[p].pc = "session"
    /\ RoomForSession
    /\ jwts' = jwts \o SessionTokens
    /\ cache' = SetSession(cache)
    /\ Proceed(p, "refresh", "blacklist", req[p].pre, req[p].local)
    /\ UNCHANGED <<authFrame, userActive, mfaEnabled, mfaUserCache, partialAuth,
                   consumed, promised, rotated>>

\* refresh_access_token: the old refresh token is blacklisted and the new tokens
\* are returned. The response says whether a refresh had returned tokens for
\* this refresh token before.
RefreshBlacklist(p) ==
    /\ req[p].op = "refresh" /\ req[p].pc = "blacklist"
    /\ LET jti == req[p].local.jti
           exp == req[p].local.exp
       IN  /\ IF NotYetExpired(exp)
              THEN /\ cache' = BlacklistToken(cache, jti, Remaining(exp))
                   /\ promised' = Promise(promised, jti, Remaining(exp))
              ELSE UNCHANGED <<cache, promised>>
           /\ resp' = [op |-> "refresh", idx |-> req[p].local.idx, outcome |-> "tokens",
                       pre |-> req[p].pre,
                       ttls |-> IF NotYetExpired(exp) THEN {Remaining(exp)} ELSE {},
                       earlier |-> req[p].local.idx \in rotated]
    /\ rotated' = rotated \cup {req[p].local.idx}
    /\ Done(p)
    /\ UNCHANGED <<authFrame, userActive, mfaEnabled, mfaUserCache, partialAuth,
                   consumed, jwts>>

\* The scopes an assignment can have: SYSTEM with no resource, or a resource.
Scopes ==
    {<<"SYSTEM", NoId>>, <<"ORGANIZATION", "o1">>, <<"ORGANIZATION", "o2">>,
     <<"PROJECT", "p1">>}

\* (is_active, expires_at) of an assignment: in force for good, in force until
\* time 1, or revoked.
Lifecycles == {<<TRUE, NoExpiry>>, <<TRUE, 1>>, <<FALSE, NoExpiry>>}

\* The rows the assignments are drawn from: the caller's (those on the project in
\* force for good), and one of another user.
CandidateRows ==
    {UserRoleRow("u1", r, sc[1], sc[2], lc[1], lc[2]) :
        r \in Roles, sc \in Scopes \ {<<"PROJECT", "p1">>}, lc \in Lifecycles}
      \cup {UserRoleRow("u1", r, "PROJECT", "p1", TRUE, NoExpiry) : r \in Roles}
      \cup {UserRoleRow("u2", "system.super_admin", "SYSTEM", NoId, TRUE, NoExpiry)}

RECURSIVE SubsetsUpTo(_, _)
SubsetsUpTo(S, k) ==
    IF k = 0 THEN {{}}
    ELSE LET P == SubsetsUpTo(S, k - 1)
         IN  P \cup {T \cup {x} : T \in P, x \in S}

\* The rows an INSERT is tried with: well-formed ones, a SYSTEM row that names a
\* resource and a resource row that names none.
InsertRows ==
    {UserRoleRow("u1", "org.owner", sc[1], sc[2], TRUE, NoExpiry) :
        sc \in Scopes \cup {<<"SYSTEM", "o1">>, <<"ORGANIZATION", NoId>>}}

\* The contexts has_permission is asked about.
Contexts ==
    {<<NoType, NoId>>, <<"SYSTEM", NoId>>, <<"ORGANIZATION", NoId>>,
     <<"ORGANIZATION", "o1">>, <<"ORGANIZATION", "o2">>, <<"PROJECT", "p1">>,
     <<NoType, "o1">>}

InitRbac ==
    /\ IdleBackup
    /\ IdleClock
    /\ IdleWork
    /\ IdleMfa
    /\ IdleLogin
    /\ jwts = <<>>
    /\ cache = [k \in CacheKeys |-> NoEntry]
    /\ promised = [j \in Jtis |-> Never]
    /\ rotated = {}
    /\ userRoles \in {S \in SubsetsUpTo(CandidateRows, MaxAssignments) : UniqueAssignments(S)}
    /\ roleActive \in [Roles -> BOOLEAN]

NextRbac ==
    \/ \E p \in PermissionNames, c \in Contexts, ok \in BOOLEAN :
          CheckPermission("u1", p, c[2], c[1], ok)
    \/ \E a \in InsertRows : InsertUserRole(a)
    \/ TickRbac

SpecRbac == InitRbac /\ [][NextRbac]_vars

(***************************************************************************)
(* The MFA lifecycle of one user: requests one at a time with the cache's  *)
(* TTLs on a clock (SpecMfa), and concurrent requests (SpecMfaRace).       *)
(***************************************************************************)
\* A user who never enabled MFA, or one who enabled it with generation 1.
InitMfa ==
    /\ IdleBackup
    /\ IdleClock
    /\ IdleWork
    /\ IdleTokens
    /\ redisUp = TRUE
    /\ userActive = TRUE
    /\ mfaUserCache = NoEntry
    /\ partialAuth = [t \in Tokens |-> NoEntry]
    /\ nextPartial = 0
    /\ partialMeta = [t \in Tokens |-> Never]
    /\ consumed = {}
    /\ resp = IdleResp
    /\ mfaSetup = NoEntry
    /\ req = [p \in Callers |-> IdleReq]
    /\ mfaDone = {}
    /\ mfaEnabled \in BOOLEAN
    /\ mfaSecret = IF mfaEnabled THEN 1 ELSE NoSecret
    /\ backupRows = IF mfaEnabled THEN {BackupGroup(1, 1)} ELSE {}
    /\ nextGen = IF mfaEnabled THEN 1 ELSE 0
    /\ nextIns = IF mfaEnabled THEN 1 ELSE 0

\* The steps of the requests running in the slots P.
MfaRequests(P) ==
    \E p \in P :
        \/ \E pwOK \in BOOLEAN : SetupMfa(p, pwOK)
        \/ SetupMfaStage(p)
        \/ \E code \in MfaClientCodes : VerifyAndEnableMfa(p, code)
        \/ \E storage_ok \in BOOLEAN : VerifyAndEnableCommit(p, storage_ok)
        \/ \E code \in MfaClientCodes : VerifyMfaCode(p, code)
        \/ VerifyMfaCodeFill(p)
        \/ \E pwOK \in BOOLEAN, code \in MfaClientCodes : DisableMfa(p, pwOK, code)
        \/ DisableMfaCommit(p)
        \/ \E pwOK \in BOOLEAN : GenerateBackupCodes(p, pwOK)
        \/ GenerateBackupCodesCommit(p)

\* How far from the current step the steps lie whose codes are tried.
StepOffsets == {0 - 3, 0 - 2, 0 - 1, 0, 1, 2, 3}

NextMfa ==
    \/ TickMfa
    \/ MfaRequests({1})
    \/ \E secret \in 1..MaxGens, d \in StepOffsets :
          VerifyTotpCodeOfStep(secret, TimeStep(now) + d)

SpecMfa == InitMfa /\ [][NextMfa]_vars

NextMfaRace == MfaRequests(Callers)

SpecMfaRace == InitMfa /\ [][NextMfaRace]_vars

(***************************************************************************)
(* Concurrent completions of one login (SpecCompleteRace) and concurrent   *)
(* refreshes of one session (SpecRefreshRace)                              *)
(***************************************************************************)
\* An active user with MFA enabled; the cache is connected.
InitCompleteRace ==
    /\ IdleBackup
    /\ IdleClock
    /\ IdleWork
    /\ IdleMfa
    /\ IdleTokens
    /\ redisUp = TRUE
    /\ userActive = TRUE
    /\ mfaEnabled = TRUE
    /\ mfaUserCache = NoEntry
    /\ partialAuth = [t \in Tokens |-> NoEntry]
    /\ nextPartial = 0
    /\ partialMeta = [t \in Tokens |-> Never]
    /\ consumed = {}
    /\ resp = IdleResp

\* The codes sent with a login or a completion: none, a wrong one, the TOTP code.
RaceCodes == {NoCode, Str(<<"junk">>, TotpDigits), TotpAt(UserSecret, TimeStep(now))}

NextCompleteRace ==
    \/ \E code \in RaceCodes : Login(TRUE, code)
    \/ \E p \in Callers, tok \in Tokens, code \in RaceCodes \ {NoCode} :
          CompleteRead(p, tok, code)
    \/ \E p \in Callers : CompleteVerify(p)
    \/ \E p \in Callers : CompleteCleanUp(p)
    \/ \E p \in Callers : CompleteSession(p)
    \/ SuspendUser

SpecCompleteRace == InitCompleteRace /\ [][NextCompleteRace]_vars

NextRefreshRace ==
    \/ OpenSession
    \/ \E p \in Callers, i \in Jtis : RefreshCheck(p, i)
    \/ \E p \in Callers : RefreshSession(p)
    \/ \E p \in Callers : RefreshBlacklist(p)
    \/ \E i \in Jtis : GetCurrentUser(i)

SpecRefreshRace == InitRevoke /\ [][NextRefreshRace]_vars

(***************************************************************************)
(* An organization and its members (SpecOrg); the dependencies among the   *)
(* tasks of a project (SpecTasks)                                          *)
(***************************************************************************)
\* create_organization made user 1 its active owner; each other user has not
\* joined, or accepted an invitation as admin or as member.
InitOrg ==
    /\ IdleBackup
    /\ IdleClock
    /\ IdleMfa
    /\ IdleLogin
    /\ IdleTokens
    /\ IdleTasks
    /\ members \in [OrgUsers -> {NoMember, Member("owner", "active"),
                                 Member("admin", "active"), Member("member", "active")}]
    /\ \A u \in OrgUsers : members[u].role = "owner" <=> u = Creator

NextOrg ==
    \/ \E by \in OrgUsers, u \in OrgUsers, role \in OrgRoles : UpdateMemberRole(by, u, role)
    \/ \E by \in OrgUsers, u \in OrgUsers : RemoveMember(by, u)
    \/ \E u \in OrgUsers : LeaveOrganization(u)

SpecOrg == InitOrg /\ [][NextOrg]_vars

InitTasks ==
    /\ IdleBackup
    /\ IdleClock
    /\ IdleMfa
    /\ IdleLogin
    /\ IdleTokens
    /\ IdleOrg
    /\ IdleTasks

NextTasks == \E blocking \in Tasks, blocked \in Tasks : CreateTaskDependency(blocking, blocked)

SpecTasks == InitTasks /\ [][NextTasks]_vars

(***************************************************************************)
(* Specification of concurrent backup-code verification                    *)
(***************************************************************************)
InitBackup ==
    /\ bcCode \in [Records -> PlainCodes]
    /\ bcUsed = [r \in Records |-> FALSE]
    /\ batchExpired = FALSE
    /\ call = [p \in Callers |-> IdleCall]
    /\ IdleClock
    /\ IdleWork
    /\ IdleMfa
    /\ IdleLogin
    /\ IdleTokens

NextBackup ==
    \/ \E p \in Callers, code \in IssuedCodes : BeginVerify(p, code)
    \/ \E p \in Callers, r \in Records : TaskCompleted(p, r)
    \/ \E p \in Callers : CommitUsed(p)
    \/ ExpireBatch

SpecBackup == InitBackup /\ [][NextBackup]_vars

(***************************************************************************)
(* Claims on backup-code verification (SpecBackup)                        *)
(***************************************************************************)
Returned(p) == call[p].pc = "done"
ReturnedTrue(p) == Returned(p) /\ call[p].result
ReturnedFalse(p) == Returned(p) /\ ~call[p].result

\* Records consumed by a committed mark of some call.
Consumed == UNION {call[p].markedSet : p \in Callers}

\* C1: calls racing on the same correct, unused backup code: exactly one of them
\* returns true and consumes the record, so no two calls return true for one record.
C1_ExactlyOneWinner ==
    \A p, q \in Callers :
        (p # q /\ ReturnedTrue(p) /\ ReturnedTrue(q))
            => call[p].marked # call[q].marked

C3_AtMostOneMarkPerCall ==
    \A p \in Callers :
        /\ Cardinality(call[p].markedSet) <= 1
        /\ ReturnedTrue(p) =>
              /\ call[p].markedSet = {call[p].marked}
              /\ BackupVerify(call[p].code, CodeHash(call[p].marked))
              /\ call[p].pending = {}
        /\ ReturnedFalse(p) => call[p].markedSet = {} /\ call[p].marked = NoRecord

\* A call returned true while another unused record holding the same code was
\* among its candidates: it was left unmarked.
C3_Witness ==
    \E p \in Callers, r \in Records :
        /\ ReturnedTrue(p)
        /\ r # call[p].marked
        /\ r \in HoldersOf(call[p].code)
        /\ r \notin call[p].usedAtStart
        /\ ~bcUsed[r]

(***************************************************************************)
(* Claims on the login flow (SpecLogin)                                    *)
(***************************************************************************)
PartialAuthTicks == PartialAuthExpire * TicksPerSecond

\* C4: for a principal with MFA enabled, tokens are issued by login or by completion
\* only after the password was verified and verify_mfa_code returned true: in the
\* same login call, or in a completion presenting a partial-auth token that a login
\* issued after its password check.
C4_TokensNeedPasswordAndMfa ==
    (mfaEnabled /\ resp.outcome = "tokens") =>
        /\ resp.mfaOK
        /\ resp.op = "login" => resp.pwOK
        /\ resp.op = "complete" => partialMeta[resp.tok] # Never

\* A completion minted tokens for an MFA-enabled principal.
C4_Witness ==
    /\ mfaEnabled
    /\ resp.op = "complete"
    /\ resp.outcome = "tokens"

\* C5: login with the correct password for an active, MFA-enabled principal and no
\* code answers MFA-required: a fresh partial-auth token is in the cache with a
\* 5-minute TTL and is returned as MFARequiredResponse; no tokens are issued.
C5_LoginAnswersMfaRequired ==
    [][(Login(TRUE, NoCode) /\ userActive /\ mfaEnabled /\ redisUp) =>
          /\ resp'.outcome = "mfa_required"
          /\ resp'.newTok \in Tokens
          /\ partialAuth'[resp'.newTok] = Entry("user", now + PartialAuthTicks)]_vars

C8_LoginAcceptsBackupCode ==
    [][\A c \in PlainCodes :
          (/\ Login(TRUE, FormatBackupCode(c))
           /\ userActive
           /\ mfaEnabled
           /\ HoldersOf(FormatBackupCode(c)) \cap UnusedUnexpired # {})
            => /\ resp'.outcome = "tokens"
               /\ \E r \in HoldersOf(FormatBackupCode(c)) :
                     bcUsed' = [bcUsed EXCEPT ![r] = TRUE]]_vars

(***************************************************************************)
(* Claims on the token lifecycle (SpecToken)                               *)
(***************************************************************************)
\* The issued token the last decode was applied to.
Asked == jwts[resp.idx]

DecodedIssued == resp.op = "decode" /\ ~resp.tampered /\ Asked.ttl > 0

RoundTrip ==
    /\ resp.outcome = "ok"
    /\ resp.claims.user_id = Asked.user_id
    /\ resp.claims.role = Asked.role
    /\ resp.claims.type = "access"

\* C9: decode_token(create_access_token(subject, id, role, ttl)) returns the id, the
\* role and type access at every time before issuance + ttl, fails with the
\* token-expired error at every time after issuance + ttl, and fails with the
\* token-invalid error when the signature does not verify.
C9_RoundTripUntilTtl ==
    /\ (DecodedIssued /\ resp.when < Asked.at + Asked.ttl) => RoundTrip
    /\ (DecodedIssued /\ resp.when > Asked.at + Asked.ttl) => resp.outcome = "token_expired"
    /\ (resp.op = "decode" /\ resp.tampered) => resp.outcome = "token_invalid"

\* C9 as amended: as C9, but the token-expired error is certain only from one whole
\* second after issuance + ttl on (exp is kept in whole seconds and compared with
\* the current whole second).
C9_RoundTripUntilTtlPlusSecond ==
    /\ (DecodedIssued /\ resp.when < Asked.at + Asked.ttl) => RoundTrip
    /\ (DecodedIssued /\ resp.when >= Asked.at + Asked.ttl + TicksPerSecond)
          => resp.outcome = "token_expired"
    /\ (resp.op = "decode" /\ resp.tampered) => resp.outcome = "token_invalid"

\* A token with a positive ttl was decoded a second or more after its ttl had
\* elapsed and was refused as expired.
C9_Witness ==
    /\ DecodedIssued
    /\ resp.when >= Asked.at + Asked.ttl + TicksPerSecond
    /\ resp.outcome = "token_expired"

(***************************************************************************)
(* Claims on revocation (SpecRevoke)                                       *)
(***************************************************************************)
\* C10: once blacklist_token(jti, ttl) has returned success, is_token_blacklisted(jti)
\* answers true at every later time until that ttl has elapsed; nothing but TTL
\* expiry removes the entry or replaces it by a shorter-lived one.
C10_BlacklistedUntilTtl ==
    \A j \in Jtis : (redisUp /\ now < promised[j]) => IsTokenBlacklisted(j)

\* C11: a token whose jti logout_user or refresh_access_token has blacklisted is not
\* accepted again before its own expiry (the cache answering): get_current_user
\* does not answer with the user and refresh_access_token does not answer with tokens.
C11_RevokedNeverAccepted ==
    (resp.op \in {"current_user", "refresh"}
        /\ {"revoked", "unexpired", "cache_up"} \subseteq resp.pre)
        => resp.outcome \notin {"user", "tokens"}

(***************************************************************************)
(* Claims on rotation and on the unreachable cache (SpecRotate)            *)
(***************************************************************************)
\* C12: when the cache cannot answer the blacklist lookup, get_current_user and
\* refresh_access_token deny the request.
C12_DeniedWhenCacheUnreachable ==
    (resp.op \in {"current_user", "refresh"} /\ "cache_up" \notin resp.pre)
        => resp.outcome \notin {"user", "tokens"}

\* C13: once refresh_access_token(R) has returned tokens, every later
\* refresh_access_token(R) before R expires (the cache answering) fails with the
\* blacklisted-token error, while a refresh token that was neither rotated nor
\* revoked is accepted.
C13_RotationInvalidatesOld ==
    /\ (resp.op = "refresh" /\ {"rotated", "unexpired", "cache_up"} \subseteq resp.pre)
          => resp.outcome = "blacklisted"
    /\ (resp.op = "refresh" /\ jwts[resp.idx].tok.payload.type = "refresh"
          /\ "unexpired" \in resp.pre /\ {"rotated", "revoked"} \cap resp.pre = {})
          => resp.outcome = "tokens"

(***************************************************************************)
(* Claims on permission checks (SpecRbac)                                  *)
(***************************************************************************)
Checked == resp.op = "has_permission" /\ resp.storage_ok

\* The assignments of the user the last check was about.
Mine == {a \in userRoles : a.user_id = resp.user}

\* Permission p is reachable through assignment a.
Reaches(a, p) == p \in RolePermissions(a.role) \/ "system.admin" \in RolePermissions(a.role)

\* The user's assignments that were valid when the last check was made.
ValidMine == {a \in Mine : IsValid(a, resp.at)}

\* C14: if the user's only valid assignment is a role on organization O granting
\* project.create, has_permission(project.create, ORGANIZATION, O) is true and
\* has_permission(project.create, ORGANIZATION, O2) is false for every O2 # O.
C14_TenantIsolation ==
    \A a \in userRoles :
        (/\ Checked
         /\ ValidMine = {a}
         /\ a.resource_type = "ORGANIZATION"
         /\ "project.create" \in RolePermissions(a.role)
         /\ roleActive[a.role]
         /\ resp.perm = "project.create"
         /\ resp.rtype = "ORGANIZATION"
         /\ resp.rid # NoId)
        => (resp.outcome = "true" <=> resp.rid = a.resource_id)

\* C15: has_permission is true exactly when the permission is reachable through an
\* assignment of the user, in force, whose (resource_type, resource_id) is the
\* requested pair or whose resource_type is SYSTEM; this for every combination of
\* given and omitted arguments.
C15_OnlyRequestedScopeCounts ==
    Checked =>
        (resp.outcome = "true" <=>
            \E a \in Mine :
                /\ a.is_active
                /\ roleActive[a.role]
                /\ Reaches(a, resp.perm)
                /\ \/ a.resource_type = "SYSTEM"
                   \/ a.resource_type = resp.rtype /\ a.resource_id = resp.rid)

\* C16: if every assignment through which the permission is reachable has expired,
\* has_permission is false, also when those assignments are still is_active.
C16_ExpiredGrantsNothing ==
    (Checked /\ \A a \in Mine : Reaches(a, resp.perm) => IsExpired(a, resp.at))
        => resp.outcome = "false"

\* C17: if every assignment through which the permission is reachable has
\* is_active = false or a role with is_active = false, has_permission is false,
\* whatever the requested resource.
C17_RevokedGrantsNothing ==
    (Checked /\ \A a \in Mine : Reaches(a, resp.perm) => (~a.is_active \/ ~roleActive[a.role]))
        => resp.outcome = "false"

\* A check in exactly the scope of a revoked assignment that reaches the permission
\* was answered false.
C17_Witness ==
    /\ Checked
    /\ resp.outcome = "false"
    /\ \E a \in Mine :
          /\ ~a.is_active
          /\ roleActive[a.role]
          /\ resp.perm \in RolePermissions(a.role)
          /\ a.resource_type = resp.rtype
          /\ a.resource_id = resp.rid

\* C18: a check with resource_type SYSTEM counts system-scoped assignments only:
\* without a system-scoped assignment reaching the permission it is false.
C18_SystemCheckNoWidening ==
    (Checked /\ resp.rtype = "SYSTEM"
        /\ \A a \in Mine : Reaches(a, resp.perm) => a.resource_type # "SYSTEM")
        => resp.outcome = "false"

\* require_system_admin's check was answered false for a user holding a role with
\* system.admin, valid, on an organization only.
C18_Witness ==
    /\ Checked
    /\ resp.rtype = "SYSTEM"
    /\ resp.perm = "system.admin"
    /\ resp.outcome = "false"
    /\ \E a \in ValidMine :
          /\ a.resource_type = "ORGANIZATION"
          /\ roleActive[a.role]
          /\ "system.admin" \in RolePermissions(a.role)

\* C19: whenever the permissions resolved for the requested context contain
\* system.admin the check is true for every permission name; a valid system-scoped
\* assignment of an active role with system.admin passes every check on every
\* resource.
C19_SystemAdminOverride ==
    Checked =>
        /\ "system.admin" \in GetUserPermissions(resp.user, resp.rid, resp.rtype)
              => resp.outcome = "true"
        /\ (\E a \in ValidMine :
               /\ a.resource_type = "SYSTEM"
               /\ roleActive[a.role]
               /\ "system.admin" \in RolePermissions(a.role))
              => resp.outcome = "true"

\* A user whose only assignment is the system-scoped super admin role passed a
\* check of project.create on an organization.
C19_Witness ==
    /\ Checked
    /\ resp.perm = "project.create"
    /\ resp.rtype = "ORGANIZATION"
    /\ resp.rid = "o2"
    /\ resp.outcome = "true"
    /\ \E a \in ValidMine :
          /\ Mine = {a}
          /\ a.resource_type = "SYSTEM"
          /\ a.role = "system.super_admin"

\* C20: when the query raises, has_permission answers false and raises nothing.
C20_FailsClosed ==
    (resp.op = "has_permission" /\ ~resp.storage_ok) => resp.outcome = "false"

\* The query raised during a check that the user's assignments would have passed.
C20_Witness ==
    /\ resp.op = "has_permission"
    /\ ~resp.storage_ok
    /\ resp.outcome = "false"
    /\ HasPermission(resp.user, resp.perm, resp.rid, resp.rtype, TRUE) = "true"

\* C21: every stored user_roles row has resource_id null exactly when its
\* resource_type is SYSTEM; an INSERT of a row that breaks either direction is
\* rejected and leaves the stored rows as they were.
C21_SystemRoleNoResource ==
    /\ \A a \in userRoles : a.resource_type = "SYSTEM" <=> a.resource_id = NoId
    /\ (/\ resp.op = "insert_user_role"
        /\ ~(resp.row.resource_type = "SYSTEM" <=> resp.row.resource_id = NoId))
          => (resp.outcome = "rejected" /\ userRoles = resp.before)

\* A SYSTEM row naming a resource was refused while other rows were stored.
C21_Witness ==
    /\ resp.op = "insert_user_role"
    /\ resp.row.resource_type = "SYSTEM"
    /\ resp.row.resource_id # NoId
    /\ resp.outcome = "rejected"
    /\ userRoles # {}

(***************************************************************************)
(* Claims on the expiry given to blacklist_token (SpecRevoke)              *)
(***************************************************************************)
\* C30: logout_user and refresh_access_token either skip blacklist_token or call
\* it with an expiry of at least one second, whatever lifetime the token has left.
C30_NoZeroTtl ==
    (resp.op = "logout" \/ (resp.op = "refresh" /\ resp.outcome = "tokens"))
        => \A ttl \in resp.ttls : ttl >= 1

(***************************************************************************)
(* Claims on the MFA lifecycle (SpecMfa, SpecMfaRace)                      *)
(***************************************************************************)
\* C22: verify_and_enable_mfa fails with the setup-expired error when no staged
\* entry exists (never staged, consumed, or past its TTL) and with the
\* invalid-code error when the code is no valid TOTP code of the staged secret; in
\* both cases mfa_enabled, mfa_secret and the backup-code records stay as they are.
C22_EnableFailures ==
    resp.op = "enable" =>
        /\ "staged" \notin resp.pre => resp.outcome = "setup_expired"
        /\ ({"staged", "cache_up"} \subseteq resp.pre /\ "totp_staged" \notin resp.pre)
              => resp.outcome = "invalid_code"
        /\ resp.outcome \in {"setup_expired", "invalid_code"} => resp.same

\* A setup was staged for a user who never enabled MFA, its ten minutes passed,
\* and verify_and_enable_mfa answered that the setup had expired.
C22_Witness ==
    /\ resp.op = "enable"
    /\ resp.outcome = "setup_expired"
    /\ nextGen >= 1
    /\ mfaDone = {}
    /\ ~mfaEnabled
    /\ now >= MfaSetupExpire * TicksPerSecond

\* C23: setup_mfa writes the staged cache entry only and leaves mfa_enabled,
\* mfa_secret and the backup-code records alone; mfa_enabled turns from false to
\* true only in a verify_and_enable_mfa step that verified a TOTP code against the
\* staged secret, and the secret stored is that staged secret.
C23_TwoPhase ==
    /\ [](resp.op = "setup" => resp.same)
    /\ [][(~mfaEnabled /\ mfaEnabled')
            => /\ resp'.op = "enable"
               /\ resp'.outcome = "enabled"
               /\ {"staged", "totp_staged"} \subseteq resp'.pre
               /\ \E p \in Callers :
                     /\ req[p].op = "enable" /\ req[p].pc = "commit"
                     /\ mfaSecret' = req[p].local
               /\ mfaSecret' = resp'.gen]_vars

\* MFA was off, a setup was staged, and verify_and_enable_mfa turned it on with the
\* staged secret.
C23_Witness ==
    /\ resp.op = "enable"
    /\ resp.outcome = "enabled"
    /\ "enabled" \notin resp.pre
    /\ "totp_staged" \in resp.pre
    /\ mfaEnabled
    /\ mfaSecret = resp.gen

\* C24: a successful verify_and_enable_mfa commits mfa_enabled, the staged secret
\* and the batch of backup codes together (none of them when the storage fails),
\* then removes the staged entry, so that a second verify_and_enable_mfa without a
\* new setup_mfa fails with the setup-expired error.
C24_EnableOnce ==
    resp.op = "enable" =>
        /\ resp.outcome = "enabled"
              => /\ resp.enabled
                 /\ resp.secret = resp.gen
                 /\ Cardinality({r \in resp.rows : r.batch = resp.gen}) = 1
                 /\ \A r \in resp.rows : r.batch = resp.gen => r.used = {}
                 /\ ~resp.staged
        /\ resp.outcome = "failed" => resp.same
        /\ "replay" \in resp.pre => resp.outcome = "setup_expired"

\* C25: disable_mfa succeeds only with the current password and a code that is
\* valid now (a TOTP code of the user's secret or an unused backup code); after a
\* success mfa_enabled is false, mfa_secret is null and no backup-code record is
\* left; with a wrong password or an invalid code it fails and changes none of them.
C25_DisableNeedsBoth ==
    resp.op = "disable" =>
        LET valid == "totp_user" \in resp.pre \/ "backup_unused" \in resp.pre
        IN  /\ resp.outcome = "disabled"
                  => /\ "password" \in resp.pre
                     /\ valid
                     /\ ~resp.enabled
                     /\ resp.secret = NoSecret
                     /\ resp.rows = {}
            /\ ("password" \notin resp.pre \/ ~valid)
                  => (resp.outcome # "disabled" /\ resp.same)

\* C26: after a successful disable_mfa a second disable_mfa with the correct
\* password, whatever the code, fails with the MFA-not-enabled error and changes
\* no state.
C26_SecondDisableFails ==
    (resp.op = "disable" /\ "password" \in resp.pre /\ "enabled" \notin resp.pre)
        => (resp.outcome = "not_enabled" /\ resp.same)

\* disable_mfa had succeeded and the next disable_mfa was refused.
C26_Witness ==
    /\ resp.op = "disable"
    /\ "password" \in resp.pre
    /\ resp.outcome = "not_enabled"
    /\ "disable" \in mfaDone
    /\ ~mfaEnabled

\* C27: generate_backup_codes with the correct password for an MFA-enabled user
\* leaves exactly one batch of BackupCodeCount records, all unused; no code of an
\* earlier batch verifies any more and each returned code verifies once; with a
\* wrong password or MFA disabled it fails and the records stay as they are.
C27_RegenerateReplaces ==
    resp.op = "generate" =>
        /\ resp.outcome = "codes"
              => /\ Cardinality(resp.rows) = 1
                 /\ \A r \in resp.rows : r.batch = resp.gen /\ r.used = {}
                 /\ \A g \in 1..nextGen, n \in 1..BackupCodeCount :
                       \A o \in VerifyBackupCode(resp.rows, BackupCodeOf(g, n)) :
                           IF g = resp.gen
                           THEN /\ o.ret = "true"
                                /\ \A o2 \in VerifyBackupCode(o.rows, BackupCodeOf(g, n)) :
                                       o2.ret = "false"
                           ELSE o.ret = "false"
        /\ ("password" \notin resp.pre \/ "enabled" \notin resp.pre)
              => (resp.outcome # "codes" /\ resp.same)

\* A user holding a batch with a used code regenerated and holds the new batch.
C27_Witness ==
    /\ resp.op = "generate"
    /\ resp.outcome = "codes"
    /\ backupRows = resp.rows
    /\ \A r \in backupRows : r.batch = nextGen /\ r.batch > 1

\* C28: verify_mfa_code for a user who has no secret configured when the request
\* arrives raises the MFA-not-enabled error and never returns true, however the
\* requests of the user interleave and whatever the mfa_user cache holds.
C28_VerifyNeedsSecret ==
    (resp.op = "verify" /\ "enabled" \notin resp.pre) => resp.outcome = "not_enabled"

\* C29: the code generated for step T is accepted by _verify_totp_code when the
\* current step is T - 1, T or T + 1 and rejected when it differs from T by two
\* or more.
C29_TotpWindow ==
    resp.op = "verify_totp" =>
        (resp.outcome <=> (resp.T - resp.step \in {0 - 1, 0, 1}))

\* After time has passed, the code of the step before the current one was
\* accepted.
C29_Witness ==
    /\ resp.op = "verify_totp"
    /\ resp.step > 0
    /\ resp.T = resp.step - 1
    /\ resp.outcome

(***************************************************************************)
(* Claims on logout and on the kinds of token (SpecLogout, SpecRevoke)     *)
(***************************************************************************)
\* C31: whenever logout_user returns True, every supplied token that carries a jti
\* and has not yet expired has a blacklist entry in the cache; if a blacklist
\* write did not succeed it returns False.
C31_LogoutTrueMeansRevoked ==
    resp.op = "logout" =>
        /\ resp.outcome = "logged_out" => resp.due \subseteq resp.listed
        /\ resp.failed # {} => resp.outcome = "partial_logout"

\* C37: each jti logout_user writes to the blacklist comes from a supplied token
\* that passed decode_token; a forged refresh-token string cannot have the jti it
\* names blacklisted.
C37_OnlyVerifiedJtisBlacklisted ==
    resp.op = "logout" => resp.written \subseteq resp.verified

\* The role in which _create_user_session returned the i-th issued token: the
\* access token comes first, its refresh token second.
IssuedAs(i) == IF i % 2 = 1 THEN "access" ELSE "refresh"

\* C38: get_current_user accepts only tokens issued as access tokens and
\* refresh_access_token only tokens issued as refresh tokens; every token of
\* _create_user_session carries the type of its role and a jti other than its
\* sibling's.
C38_TokenTypesNotInterchangeable ==
    /\ (resp.op = "current_user" /\ resp.outcome = "user") => IssuedAs(resp.idx) = "access"
    /\ (resp.op = "refresh" /\ resp.outcome = "tokens") => IssuedAs(resp.idx) = "refresh"
    /\ \A i \in 1..Len(jwts) :
          /\ jwts[i].tok.payload.type = IssuedAs(i)
          /\ IssuedAs(i) = "access"
                => jwts[i].tok.payload.jti # jwts[RefreshOfSession(i)].tok.payload.jti

\* A refresh token that is neither expired nor revoked was presented as bearer
\* credentials and turned away for its type.
C38_Witness ==
    /\ resp.op = "current_user"
    /\ IssuedAs(resp.idx) = "refresh"
    /\ "unexpired" \in resp.pre
    /\ "revoked" \notin resp.pre
    /\ resp.outcome = "invalid_token_type"

(***************************************************************************)
(* Claims on concurrent MFA requests (SpecMfaRace)                         *)
(***************************************************************************)
\* C34: in every reachable state a user has at most BackupCodeCount backup-code
\* records, one batch, also after concurrent verify_and_enable_mfa calls on one
\* staged setup and after concurrent generate_backup_codes calls.
C34_AtMostOneBatch == Cardinality(backupRows) * BackupCodeCount <= BackupCodeCount

\* C35: in every committed state mfa_enabled is true exactly when mfa_secret is
\* not null, and a user whose mfa_enabled is false has no backup-code records.
C35_EnabledIffSecretAndCodes ==
    /\ mfaEnabled <=> mfaSecret # NoSecret
    /\ ~mfaEnabled => backupRows = {}

(***************************************************************************)
(* Claims on concurrent completions and refreshes (SpecCompleteRace,       *)
(* SpecRefreshRace)                                                        *)
(***************************************************************************)
\* C32: of the complete_mfa_authentication calls that present one partial-auth
\* token, however their cache get, code verification and cache delete
\* interleave, at most one returns tokens.
C32_PartialTokenMintsOneSession ==
    (resp.op = "complete_mfa" /\ resp.outcome = "tokens") => ~resp.earlier

\* C33: of the refresh_access_token calls that present one refresh token, however
\* their blacklist check, session creation and blacklist write interleave, at
\* most one returns new tokens.
C33_RefreshTokenRedeemedOnce ==
    (resp.op = "refresh" /\ resp.outcome = "tokens") => ~resp.earlier

\* C36: no tokens are issued to a user whose status is not ACTIVE when they are
\* issued, by authenticate_user or by complete_mfa_authentication, also when the
\* user was suspended after the partial-auth token was issued.
C36_TokensOnlyForActiveUsers ==
    /\ (resp.op = "login" /\ resp.outcome = "tokens") => "active" \in resp.pre
    /\ (resp.op = "complete_mfa" /\ resp.outcome = "tokens") => resp.active

(***************************************************************************)
(* Claims on organization owners (SpecOrg) and task dependencies           *)
(* (SpecTasks)                                                             *)
(***************************************************************************)
\* C39: after any sequence of update_member_role, remove_member and
\* leave_organization calls on an organization created with one owner, at least
\* one membership with role OWNER and status ACTIVE remains.
C39_ActiveOwnerRemains ==
    \E u \in OrgUsers : members[u] = Member("owner", "active")

\* C40: after any sequence of create_task_dependency calls no chain of
\* dependencies, of any length, leads from a task back to itself.
C40_DependenciesAcyclic ==
    \A t \in Tasks : t \notin BlockedThrough(t)

====
